---- MODULE Spec2Model ----
(***************************************************************************)
(* Chunked game store of fensterchess.tooling: the pgnmentor download run  *)
(* (downloadPgnmentor.ts), the index rebuild (buildIndexes.ts) and the     *)
(* upload to the blob store (uploadToBlobs.js).                            *)
(*                                                                         *)
(* Files on disk are state variables; every script run is a sequence of    *)
(* actions over them.  Timestamps are integers read from the clock `now`.  *)
(***************************************************************************)
EXTENDS Integers, Sequences, FiniteSets, TLC

(***************************************************************************)
(* Bounds of the model.                                                    *)
(***************************************************************************)
MaxKeys == 3          \* distinct hashes a downloaded game can have
MaxGamesPerFile == 2  \* games in one extracted PGN
MaxRuns == 1          \* download runs per behaviour
MaxLegacy == 3        \* games in processed-games.json
MaxRebuilds == 1      \* buildIndexes runs per behaviour

(***************************************************************************)
(* Program constants.  CHUNK_SIZE is 4000 and the checkpoint interval is 5 *)
(* in the source; both are scaled down so that a run of NumFiles files     *)
(* crosses several chunk and checkpoint boundaries.                        *)
(***************************************************************************)
CHUNK_SIZE == 2
CHECKPOINT_FILES == 2
THROTTLE_MS == 2000    \* the pause between two downloads, in ms
NumFiles == 4         \* player files linked from files.html

Files == 1..NumFiles
Keys == 1..MaxKeys
MaxTime == MaxRuns + MaxRebuilds
Times == 0..MaxTime
NoTime == -1          \* an absent timestamp (undefined)
NoGap == -1           \* no two downloads have started yet

Max(a, b) == IF a > b THEN a ELSE b
Min(a, b) == IF a < b THEN a ELSE b

EmptyMap == [x \in {} |-> 0]
Put(m, k, v) == [x \in DOMAIN m \cup {k} |-> IF x = k THEN v ELSE m[x]]

RECURSIVE SeqOfSet(_)
SeqOfSet(S) ==
  IF S = {} THEN <<>>
  ELSE LET m == CHOOSE x \in S : \A y \in S : x <= y
       IN <<m>> \o SeqOfSet(S \ {m})

Range(s) == {s[i] : i \in DOMAIN s}

(***************************************************************************)
(* GameMetadata.  hash = 0 is a missing hash, sourceFile = 0 a game that   *)
(* is not from a pgnmentor file.  The move text is a sequence of tokens:   *)
(* move numbers, SAN moves, result tokens, comments.  An annotation field  *)
(* that is not set is Unset.                                               *)
(***************************************************************************)
Unset == 0

\* the move section the PGN holds for the game of a given hash
PgnMoves(hash) ==
  CASE hash = 0 -> <<>>
    [] hash = 1 -> <<"1.", "e4", "e5", "1-0">>
    [] hash = 2 -> <<"1.", "d4", "{c}", "1/2-1/2">>
    [] hash = 3 -> <<"1.", "c4", "*">>
    [] hash = 4 -> <<"1.", "e4", "Qh9">>
    [] OTHER -> <<"e4">>

GameMetadata(idx, hash, sourceFile) ==
  [idx |-> idx, hash |-> hash, sourceFile |-> sourceFile,
   moves |-> PgnMoves(hash), ply |-> 0,
   ecoJsonFen |-> Unset, ecoJsonOpening |-> Unset, ecoJsonEco |-> Unset,
   movesBack |-> Unset]

(***************************************************************************)
(* A candidate game of a PGN as indexPgnGames yields it: no headers, or    *)
(* headers the filter refuses, or headers, given with the hash that        *)
(* hashGame returns for them.                                              *)
(***************************************************************************)
Candidates ==
  {[kind |-> "noheaders", hash |-> 0], [kind |-> "filtered", hash |-> 0]}
    \cup {[kind |-> "ok", hash |-> k] : k \in Keys}

PgnContents ==
  UNION {[1..n -> Candidates] : n \in 0..MaxGamesPerFile}

(***************************************************************************)
(* Chunk files.  disk maps the id of every chunk-<id>.json to its content: *)
(* the layout ({games} or {version, chunkId, games}) and the games.        *)
(***************************************************************************)
ChunkFile(layout, gs) == [layout |-> layout, games |-> gs]

WriteChunk(dsk, id, file) == Put(dsk, id, file)

chunkFiles(dsk) == SeqOfSet(DOMAIN dsk)

RECURSIVE AllGamesOf(_, _)
AllGamesOf(dsk, ids) ==
  IF ids = <<>> THEN <<>>
  ELSE dsk[Head(ids)].games \o AllGamesOf(dsk, Tail(ids))

AllGames(dsk) == AllGamesOf(dsk, chunkFiles(dsk))

RECURSIVE ScanDedup(_, _)
ScanDedup(gs, index) ==
  IF gs = <<>> THEN index
  ELSE ScanDedup(Tail(gs),
                 IF Head(gs).hash # 0 THEN Put(index, Head(gs).hash, Head(gs).idx)
                 ELSE index)

RECURSIVE ScanMaxId(_, _)
ScanMaxId(gs, m) ==
  IF gs = <<>> THEN m
  ELSE ScanMaxId(Tail(gs), IF Head(gs).idx > m THEN Head(gs).idx ELSE m)

NoChunk == [present |-> FALSE, id |-> 0, games |-> <<>>]

\* a variant that takes the highest id from the last chunk only
loadExistingChunksDataLastChunk(dsk) ==
  IF DOMAIN dsk = {}
  THEN [maxGameId |-> -1, deduplicationIndex |-> EmptyMap, lastChunk |-> NoChunk]
  ELSE LET ids == chunkFiles(dsk)
           lastChunkId == ids[Len(ids)]
       IN [maxGameId |-> ScanMaxId(dsk[lastChunkId].games, -1),
           deduplicationIndex |-> ScanDedup(AllGames(dsk), EmptyMap),
           lastChunk |-> [present |-> TRUE, id |-> lastChunkId,
                          games |-> dsk[lastChunkId].games]]

loadExistingChunksData(dsk) ==
  IF DOMAIN dsk = {}
  THEN [maxGameId |-> -1, deduplicationIndex |-> EmptyMap, lastChunk |-> NoChunk]
  ELSE LET ids == chunkFiles(dsk)
           lastChunkId == ids[Len(ids)]
       IN [maxGameId |-> ScanMaxId(AllGames(dsk), -1),
           deduplicationIndex |-> ScanDedup(AllGames(dsk), EmptyMap),
           lastChunk |-> [present |-> TRUE, id |-> lastChunkId,
                          games |-> dsk[lastChunkId].games]]

(***************************************************************************)
(* saveGamesToChunks: the disk after the call and the ids of the chunk     *)
(* files it wrote.                                                         *)
(***************************************************************************)
\* a variant that rolls over one record too late
RECURSIVE SaveLoopLateRollover(_, _, _, _)
SaveLoopLateRollover(gs, currentChunk, dsk, written) ==
  IF gs = <<>>
  THEN [currentChunk |-> currentChunk, dsk |-> dsk, written |-> written]
  ELSE IF Len(currentChunk.games) > CHUNK_SIZE
       THEN SaveLoopLateRollover(Tail(gs),
                     [id |-> currentChunk.id + 1, games |-> <<Head(gs)>>],
                     WriteChunk(dsk, currentChunk.id,
                                ChunkFile("minimal", currentChunk.games)),
                     written \cup {currentChunk.id})
       ELSE SaveLoopLateRollover(Tail(gs),
                     [id |-> currentChunk.id,
                      games |-> Append(currentChunk.games, Head(gs))],
                     dsk, written)

RECURSIVE SaveLoop(_, _, _, _)
SaveLoop(gs, currentChunk, dsk, written) ==
  IF gs = <<>>
  THEN [currentChunk |-> currentChunk, dsk |-> dsk, written |-> written]
  ELSE IF Len(currentChunk.games) >= CHUNK_SIZE
       THEN SaveLoop(Tail(gs),
                     [id |-> currentChunk.id + 1, games |-> <<Head(gs)>>],
                     WriteChunk(dsk, currentChunk.id,
                                ChunkFile("minimal", currentChunk.games)),
                     written \cup {currentChunk.id})
       ELSE SaveLoop(Tail(gs),
                     [id |-> currentChunk.id,
                      games |-> Append(currentChunk.games, Head(gs))],
                     dsk, written)

saveGamesToChunks(gs, dsk, existingLastChunk) ==
  IF Len(gs) = 0 THEN [dsk |-> dsk, written |-> {}]
  ELSE LET start == IF existingLastChunk.present
                    THEN [id |-> existingLastChunk.id,
                          games |-> existingLastChunk.games]
                    ELSE [id |-> 0, games |-> <<>>]
           r == SaveLoop(gs, start, dsk, {})
       IN IF Len(r.currentChunk.games) > 0
          THEN [dsk |-> WriteChunk(r.dsk, r.currentChunk.id,
                                   ChunkFile("minimal", r.currentChunk.games)),
                written |-> r.written \cup {r.currentChunk.id}]
          ELSE [dsk |-> r.dsk, written |-> r.written]

(***************************************************************************)
(* processGames, one candidate of the PGN at a time.  st holds the games   *)
(* accepted from the file so far, the shared dedup index, the next id and  *)
(* the per-file statistics.                                                *)
(***************************************************************************)
ZeroStats == [total |-> 0, accepted |-> 0, rejected |-> 0, duplicates |-> 0]

\* a variant that takes the id before it looks the hash up
processOneIdBeforeLookup(cand, sourceFile, st) ==
  LET counted == [st EXCEPT !.stats.total = @ + 1]
  IN IF cand.kind # "ok"
     THEN [counted EXCEPT !.stats.rejected = @ + 1]
     ELSE LET hash == cand.hash
              taken == [counted EXCEPT !.gameIndex = @ + 1]
          IN IF hash \in DOMAIN st.deduplicationIndex
             THEN [taken EXCEPT !.stats.duplicates = @ + 1]
             ELSE [games |-> Append(st.games,
                                    GameMetadata(st.gameIndex, hash, sourceFile)),
                   deduplicationIndex |->
                     Put(st.deduplicationIndex, hash, st.gameIndex),
                   gameIndex |-> taken.gameIndex,
                   stats |-> [counted.stats EXCEPT !.accepted = @ + 1]]

processOne(cand, sourceFile, st) ==
  LET counted == [st EXCEPT !.stats.total = @ + 1]
  IN IF cand.kind = "noheaders"
     THEN [counted EXCEPT !.stats.rejected = @ + 1]
     ELSE IF cand.kind = "filtered"
     THEN [counted EXCEPT !.stats.rejected = @ + 1]
     ELSE LET hash == cand.hash
          IN IF hash \in DOMAIN st.deduplicationIndex
             THEN [counted EXCEPT !.stats.duplicates = @ + 1]
             ELSE [games |-> Append(st.games,
                                    GameMetadata(st.gameIndex, hash, sourceFile)),
                   deduplicationIndex |->
                     Put(st.deduplicationIndex, hash, st.gameIndex),
                   gameIndex |-> st.gameIndex + 1,
                   stats |-> [counted.stats EXCEPT !.accepted = @ + 1]]

RECURSIVE processAll(_, _, _)
processAll(pgnContent, sourceFile, st) ==
  IF pgnContent = <<>> THEN st
  ELSE processAll(Tail(pgnContent), sourceFile,
                  processOne(Head(pgnContent), sourceFile, st))

processGames(pgnContent, sourceFile, index, gameIdx) ==
  LET st == processAll(pgnContent, sourceFile,
                       [games |-> <<>>, deduplicationIndex |-> index,
                        gameIndex |-> gameIdx, stats |-> ZeroStats])
  IN [games |-> st.games, nextIndex |-> st.gameIndex, stats |-> st.stats,
      deduplicationIndex |-> st.deduplicationIndex]

VARIABLES
  disk,               \* data/indexes/chunk-*.json
  dedupFile,          \* data/indexes/deduplication-index.json
  trackingFile,       \* data/indexes/source-tracking.json (pgnmentor entry)
  now,                \* the clock
  pc,                 \* position of the download run
  visitDate, limitedFiles, fileIdx,
  deduplicationIndex, lastChunk, nextGameId, allNewGames,
  sourceTracking,
  pgn, games, gameIndex, stats,      \* processGames of the current file
  acceptedThisRun,    \* the games accepted by this run, in order
  lastWrites,         \* chunk files written by the latest step of the run
  runs, rebuilds,     \* runs started so far
  remote,             \* the blob store: key -> content
  upPc,               \* position of the upload run
  newFiles, modifiedFiles, unchangedFiles,
  uploads,            \* files uploaded by this run, in order
  answer,             \* what was typed at the confirmation prompt
  setCalls,           \* keys store.set was called with by this run
  outcome,            \* how the latest finished upload run ended
  uploadRuns,         \* upload runs started so far
  bkPc,               \* position of the backup run
  bkBlobs,            \* the listing the backup run got
  bkAttempted,        \* blobs the backup loop has handled
  bkDownloads,        \* blobs the backup run has written, in order
  bkOutcome,          \* how the latest finished backup run ended
  backups,            \* backups/<timestamp>/: timestamp -> key -> content
  backupRuns,         \* backup runs started so far
  backedUp,           \* a backup run has ended successfully
  enGames,            \* the games enrichGamesWithEcoJson works on, in place
  enInput,            \* the games as they were handed to this enrichment
  enPos,              \* games the enrichment loop has handled
  enStats,            \* matched, unmatched, skipped; replays and lookups done
  enRuns,             \* enrichments of the games started so far
  ixGames,            \* the games buildOpeningByNameIndex goes through
  ixPos,              \* games the index loop has handled
  byName,             \* the opening-by-name index built so far
  pbFiles,            \* the filenames handed to batchCheckFileMetadata
  pbLastVisit,        \* lastPageVisit of the loaded source tracking
  pbPc,               \* position of the metadata check and the classification
  pbIssued,           \* HEAD requests started, in order
  pbSettled,          \* filename -> the outcome of its request, once it has one
  pbResults,          \* the map batchCheckFileMetadata returned
  pbToProcess,        \* filesToProcess after the classification
  zips,               \* DOWNLOAD_DIR: filename -> what the zip written there holds
  dlFailed,           \* files of this run whose downloadFile returned false
  gap,                \* at least this many ms lie between the latest two download starts
  masterFile,         \* master-index.json
  gameToChunkFile,    \* game-to-chunk.json
  lastOp,             \* the latest of buildIndexes and rechunk to have completed
  beforeSave,         \* the chunk files as they were when the save began
  openFile,           \* id of the chunk file open for writing, or NoFile
  rsBackupId,         \* backupId of the latest POST /api/restore, or NoBackupId
  rsOutcome,          \* how the latest restore ended
  restores            \* restore requests handled so far

fileVars == <<disk, dedupFile, trackingFile>>
runVars == <<pc, visitDate, limitedFiles, fileIdx,
             deduplicationIndex, lastChunk, nextGameId, allNewGames,
             sourceTracking, acceptedThisRun, lastWrites, runs>>
gameVars == <<pgn, games, gameIndex, stats>>
syncVars == <<remote, upPc, newFiles, modifiedFiles, unchangedFiles, uploads,
              answer, setCalls, outcome, uploadRuns>>
backupVars == <<bkPc, bkBlobs, bkAttempted, bkDownloads, bkOutcome, backups,
                backupRuns, backedUp>>
enrichVars == <<enGames, enInput, enPos, enStats, enRuns>>
indexVars == <<ixGames, ixPos, byName>>
probeVars == <<pbFiles, pbLastVisit, pbPc, pbIssued, pbSettled, pbResults, pbToProcess>>
fetchVars == <<zips, dlFailed, gap>>
artifactVars == <<masterFile, gameToChunkFile, lastOp>>
writeVars == <<beforeSave, openFile>>
restoreVars == <<rsBackupId, rsOutcome, restores>>
vars == <<fileVars, now, runVars, gameVars, rebuilds, syncVars, backupVars,
          enrichVars, restoreVars, writeVars, artifactVars, fetchVars,
          probeVars, indexVars>>

NoTracking == [exists |-> FALSE, lastPageVisit |-> NoTime, files |-> EmptyMap]
NoDedup == [exists |-> FALSE, index |-> EmptyMap]

\* the legacy import: games numbered from 0, not from a pgnmentor file
LegacyGames(n) == [i \in 1..n |-> GameMetadata(i - 1, i + 1, 0)]

IdleRun ==
  /\ pc = "idle"
  /\ visitDate = NoTime
  /\ limitedFiles = <<>>
  /\ fileIdx = 0
  /\ deduplicationIndex = EmptyMap
  /\ lastChunk = NoChunk
  /\ nextGameId = 0
  /\ allNewGames = <<>>
  /\ sourceTracking = [lastPageVisit |-> NoTime, files |-> EmptyMap]
  /\ acceptedThisRun = <<>>
  /\ pgn = <<>>
  /\ games = <<>>
  /\ gameIndex = 0
  /\ stats = ZeroStats

ZeroEnrich == [matched |-> 0, unmatched |-> 0, skipped |-> 0, replays |-> 0,
               lookups |-> 0]

IdleEnrich ==
  /\ enGames = <<>>
  /\ enInput = <<>>
  /\ enPos = 0
  /\ enStats = ZeroEnrich
  /\ enRuns = 0

IdleIndex ==
  /\ ixGames = <<>>
  /\ ixPos = 0
  /\ byName = EmptyMap

IdleProbe ==
  /\ pbFiles = <<>>
  /\ pbLastVisit = NoTime
  /\ pbPc = "idle"
  /\ pbIssued = <<>>
  /\ pbSettled = EmptyMap
  /\ pbResults = EmptyMap
  /\ pbToProcess = <<>>

IdleFetch ==
  /\ zips = EmptyMap
  /\ dlFailed = {}
  /\ gap = NoGap

NoMaster == [exists |-> FALSE, totalGames |-> 0, totalChunks |-> 0, chunks |-> <<>>]
NoGameToChunk == [exists |-> FALSE, index |-> EmptyMap]

IdleArtifacts ==
  /\ masterFile = NoMaster
  /\ gameToChunkFile = NoGameToChunk
  /\ lastOp = "none"

NoFile == -1

IdleWrite ==
  /\ beforeSave = EmptyMap
  /\ openFile = NoFile

NoBackupId == 0       \* a request whose body has no backupId

IdleRestore ==
  /\ rsBackupId = NoBackupId
  /\ rsOutcome = "none"
  /\ restores = 0

NoAnswer == [given |-> FALSE, text |-> <<>>]

IdleSync ==
  /\ upPc = "idle"
  /\ newFiles = <<>>
  /\ modifiedFiles = <<>>
  /\ unchangedFiles = <<>>
  /\ uploads = <<>>
  /\ answer = NoAnswer
  /\ setCalls = <<>>
  /\ outcome = "none"
  /\ uploadRuns = 0

IdleBackup ==
  /\ bkPc = "idle"
  /\ bkBlobs = <<>>
  /\ bkAttempted = 0
  /\ bkDownloads = <<>>
  /\ bkOutcome = "none"
  /\ backups = EmptyMap
  /\ backupRuns = 0
  /\ backedUp = FALSE

Init ==
  /\ IdleBackup
  /\ IdleRestore
  /\ IdleWrite
  /\ IdleArtifacts
  /\ IdleFetch
  /\ IdleProbe
  /\ IdleIndex
  /\ IdleEnrich
  /\ remote = EmptyMap
  /\ IdleSync
  /\ disk = EmptyMap
  /\ dedupFile = NoDedup
  /\ trackingFile = NoTracking
  /\ now = 0
  /\ IdleRun
  /\ lastWrites = {}
  /\ runs = 0
  /\ rebuilds = 0

(***************************************************************************)
(* Upstream responses.  A metadata probe fails (ProbeFailed), or succeeds  *)
(* without a Last-Modified header (NoTime), or succeeds with one.          *)
(***************************************************************************)
ProbeFailed == -2
ProbeResults == {ProbeFailed, NoTime} \cup Times

discoverPlayerFiles == SeqOfSet(Files)

\* a variant that stops collecting at the first request that failed
batchCheckFileMetadataUntilFailure(filenames, response) ==
  [f \in {g \in Range(filenames) :
            \A i \in DOMAIN filenames :
              filenames[i] <= g => response[filenames[i]] # ProbeFailed}
     |-> response[f]]

batchCheckFileMetadata(filenames, response) ==
  [f \in {g \in Range(filenames) : response[g] # ProbeFailed} |-> response[f]]

\* a variant that leaves out a file it has no metadata for
RECURSIVE classifyKnownOnly(_, _, _)
classifyKnownOnly(discovered, metadataMap, lastVisitDate) ==
  IF discovered = <<>> THEN <<>>
  ELSE LET filename == Head(discovered)
           rest == classifyKnownOnly(Tail(discovered), metadataMap,
                                     lastVisitDate)
       IN IF filename \notin DOMAIN metadataMap THEN rest
          ELSE IF lastVisitDate = NoTime \/ metadataMap[filename] = NoTime
          THEN <<filename>> \o rest
          ELSE IF metadataMap[filename] > lastVisitDate
               THEN <<filename>> \o rest
               ELSE rest

RECURSIVE classify(_, _, _)
classify(discovered, metadataMap, lastVisitDate) ==
  IF discovered = <<>> THEN <<>>
  ELSE LET filename == Head(discovered)
           rest == classify(Tail(discovered), metadataMap, lastVisitDate)
           lastModified == IF filename \in DOMAIN metadataMap
                           THEN metadataMap[filename] ELSE NoTime
       IN IF lastVisitDate = NoTime \/ lastModified = NoTime
          THEN <<filename>> \o rest
          ELSE IF lastModified > lastVisitDate
               THEN <<filename>> \o rest
               ELSE rest

limitFiles(filesToProcess, MAX_FILES) ==
  IF MAX_FILES > 0 /\ Len(filesToProcess) > MAX_FILES
  THEN SubSeq(filesToProcess, 1, MAX_FILES)
  ELSE filesToProcess

TrackingWritten(st) ==
  [exists |-> TRUE, lastPageVisit |-> st.lastPageVisit, files |-> st.files]

LoadedTracking ==
  [lastPageVisit |-> trackingFile.lastPageVisit, files |-> trackingFile.files]

(***************************************************************************)
(* discoverPgnmentorFiles up to the per-file loop.                         *)
(***************************************************************************)
DownloadPageUnchanged ==
  /\ pc = "idle"
  /\ runs < MaxRuns
  /\ \E pageLastModified \in Times :
       /\ trackingFile.lastPageVisit # NoTime
       /\ pageLastModified <= trackingFile.lastPageVisit
  /\ runs' = runs + 1
  /\ now' = now + 1
  /\ UNCHANGED <<fileVars, gameVars, rebuilds, pc, visitDate, limitedFiles,
                 fileIdx, deduplicationIndex, lastChunk,
                 nextGameId, allNewGames, sourceTracking,
                 acceptedThisRun, lastWrites>>
  /\ UNCHANGED syncVars
  /\ UNCHANGED backupVars
  /\ UNCHANGED enrichVars
  /\ UNCHANGED restoreVars
  /\ UNCHANGED writeVars
  /\ UNCHANGED artifactVars
  /\ UNCHANGED fetchVars
  /\ UNCHANGED probeVars
  /\ UNCHANGED indexVars

PageModified(pageLastModified) ==
  ~ (/\ trackingFile.lastPageVisit # NoTime
     /\ pageLastModified # NoTime
     /\ pageLastModified <= trackingFile.lastPageVisit)

\* the lists classification can yield, over all outcomes of the probes
FilesToProcess ==
  {classify(discoverPlayerFiles,
            batchCheckFileMetadata(discoverPlayerFiles, response),
            trackingFile.lastPageVisit) : response \in [Files -> ProbeResults]}

DownloadNothingToDo ==
  /\ pc = "idle"
  /\ runs < MaxRuns
  /\ \E pageLastModified \in Times \cup {NoTime} : PageModified(pageLastModified)
  /\ <<>> \in FilesToProcess
  /\ now' = now + 1
  /\ trackingFile' = TrackingWritten([LoadedTracking EXCEPT !.lastPageVisit = now'])
  /\ runs' = runs + 1
  /\ UNCHANGED <<disk, dedupFile, gameVars, rebuilds, pc,
                 visitDate, limitedFiles, fileIdx,
                 deduplicationIndex, lastChunk, nextGameId, allNewGames,
                 sourceTracking, acceptedThisRun, lastWrites>>
  /\ UNCHANGED syncVars
  /\ UNCHANGED backupVars
  /\ UNCHANGED enrichVars
  /\ UNCHANGED restoreVars
  /\ UNCHANGED writeVars
  /\ UNCHANGED artifactVars
  /\ UNCHANGED fetchVars
  /\ UNCHANGED probeVars
  /\ UNCHANGED indexVars

DownloadBegin ==
  /\ pc = "idle"
  /\ runs < MaxRuns
  /\ \E pageLastModified \in Times \cup {NoTime} : PageModified(pageLastModified)
  /\ \E filesToProcess \in FilesToProcess, MAX_FILES \in 0..NumFiles :
       /\ filesToProcess # <<>>
       /\ limitedFiles' = limitFiles(filesToProcess, MAX_FILES)
  /\ LET loaded == loadExistingChunksData(disk)
     IN /\ deduplicationIndex' = loaded.deduplicationIndex
        /\ lastChunk' = loaded.lastChunk
        /\ nextGameId' = loaded.maxGameId + 1
  /\ now' = now + 1
  /\ visitDate' = now'
  /\ sourceTracking' = LoadedTracking
  /\ fileIdx' = 0
  /\ allNewGames' = <<>>
  /\ acceptedThisRun' = <<>>
  /\ pc' = "files"
  /\ runs' = runs + 1
  /\ UNCHANGED <<fileVars, gameVars, rebuilds, lastWrites>>
  /\ UNCHANGED syncVars
  /\ UNCHANGED backupVars
  /\ UNCHANGED enrichVars
  /\ UNCHANGED restoreVars
  /\ UNCHANGED writeVars
  /\ UNCHANGED artifactVars
  /\ UNCHANGED fetchVars
  /\ UNCHANGED probeVars
  /\ UNCHANGED indexVars

(***************************************************************************)
(* One iteration of the per-file loop.                                     *)
(***************************************************************************)
\* download or extraction yields no PGN text, or indexPgnGames throws:
\* the iteration ends before the checkpoint and the throttle
FileFails ==
  /\ pc = "files"
  /\ fileIdx < Len(limitedFiles)
  /\ fileIdx' = fileIdx + 1
  /\ lastWrites' = {}
  /\ UNCHANGED <<fileVars, now, gameVars, rebuilds, pc, visitDate, limitedFiles,
                 deduplicationIndex, lastChunk, nextGameId,
                 allNewGames, sourceTracking, acceptedThisRun,
                 runs>>
  /\ UNCHANGED syncVars
  /\ UNCHANGED backupVars
  /\ UNCHANGED enrichVars
  /\ UNCHANGED restoreVars
  /\ UNCHANGED writeVars
  /\ UNCHANGED artifactVars
  /\ UNCHANGED fetchVars
  /\ UNCHANGED probeVars
  /\ UNCHANGED indexVars

\* the source-tracking entry of one file; the url, lastModified, etag and
\* downloadDate fields are carried along and never read: they are left out
TrackingEntry(gameCount) ==
  [gameCount |-> gameCount, uploadDate |-> NoTime]

isCheckpoint(fileNum, fileCount) ==
  fileNum % CHECKPOINT_FILES = 0 \/ fileNum = fileCount

\* what one iteration does with the PGN text it extracted: the games are
\* processed, the file is tracked, and every CHECKPOINT_FILES files and
\* after the last one the pending games and both indexes are saved
processFile(pgnContent) ==
  LET filename == limitedFiles[fileIdx + 1]
      fileNum == fileIdx + 1
      result == processGames(pgnContent, filename, deduplicationIndex,
                             nextGameId)
      pending == allNewGames \o result.games
      tracked == [sourceTracking EXCEPT !.files =
                    Put(@, filename, TrackingEntry(Len(result.games)))]
  IN /\ deduplicationIndex' = result.deduplicationIndex
     /\ nextGameId' = result.nextIndex
     /\ acceptedThisRun' = acceptedThisRun \o result.games
     /\ IF isCheckpoint(fileNum, Len(limitedFiles))
        THEN LET saved == saveGamesToChunks(pending, disk, lastChunk)
             IN /\ disk' = saved.dsk
                /\ lastWrites' = saved.written
                /\ allNewGames' = <<>>
                /\ dedupFile' = [exists |-> TRUE,
                                 index |-> result.deduplicationIndex]
                /\ sourceTracking' = [tracked EXCEPT !.lastPageVisit = visitDate]
                /\ trackingFile' = TrackingWritten(sourceTracking')
        ELSE /\ allNewGames' = pending
             /\ sourceTracking' = tracked
             /\ lastWrites' = {}
             /\ UNCHANGED <<disk, dedupFile, trackingFile>>

\* the file is downloaded, extracted and processed
FileProcessedFrom(contents) ==
  /\ pc = "files"
  /\ fileIdx < Len(limitedFiles)
  /\ \E pgnContent \in contents : processFile(pgnContent)
  /\ fileIdx' = fileIdx + 1
  /\ UNCHANGED <<now, rebuilds, gameVars, pc, visitDate, limitedFiles, lastChunk,
                 runs>>
  /\ UNCHANGED syncVars
  /\ UNCHANGED backupVars
  /\ UNCHANGED enrichVars
  /\ UNCHANGED restoreVars
  /\ UNCHANGED writeVars
  /\ UNCHANGED artifactVars
  /\ UNCHANGED fetchVars
  /\ UNCHANGED probeVars
  /\ UNCHANGED indexVars

FileProcessed == FileProcessedFrom(PgnContents)

\* after the loop: final save, final dedup index and source tracking writes
DownloadFinish ==
  /\ pc = "files"
  /\ fileIdx = Len(limitedFiles)
  /\ LET saved == saveGamesToChunks(allNewGames, disk, lastChunk)
     IN /\ disk' = saved.dsk
        /\ lastWrites' = saved.written
  /\ dedupFile' = [exists |-> TRUE, index |-> deduplicationIndex]
  /\ trackingFile' = TrackingWritten([sourceTracking EXCEPT !.lastPageVisit = visitDate])
  /\ pc' = "idle"
  /\ visitDate' = NoTime
  /\ limitedFiles' = <<>>
  /\ fileIdx' = 0
  /\ deduplicationIndex' = EmptyMap
  /\ lastChunk' = NoChunk
  /\ nextGameId' = 0
  /\ allNewGames' = <<>>
  /\ sourceTracking' = [lastPageVisit |-> NoTime, files |-> EmptyMap]
  /\ acceptedThisRun' = <<>>
  /\ UNCHANGED <<now, gameVars, rebuilds, runs>>
  /\ UNCHANGED syncVars
  /\ UNCHANGED backupVars
  /\ UNCHANGED enrichVars
  /\ UNCHANGED restoreVars
  /\ UNCHANGED writeVars
  /\ UNCHANGED artifactVars
  /\ UNCHANGED fetchVars
  /\ UNCHANGED probeVars
  /\ UNCHANGED indexVars

(***************************************************************************)
(* buildIndexes.  The opening lookup is a fixed book over the clean moves.  *)
(***************************************************************************)
NoiseTokens == {"1.", "2.", "1-0", "0-1", "1/2-1/2", "*", "{c}", "(v)", "[h]"}

\* the clean SAN moves of a move text: headers, move numbers, result
\* tokens, comments and variations removed
cleanMoves(movesText) == SelectSeq(movesText, LAMBDA t : t \notin NoiseTokens)

\* chess.reset() and chess.move(move) for each move: FALSE if one is refused
LegalSans == {"e4", "e5", "d4", "c4"}

replay(sans) == \A i \in DOMAIN sans : sans[i] \in LegalSans

\* the opening book: the deepest known position on the line played
lookupByMoves(sans) ==
  CASE sans # <<>> /\ sans[1] = "e4" ->
         [opening |-> 1, eco |-> 1, fen |-> 1, movesBack |-> Len(sans) - 1]
    [] sans # <<>> /\ sans[1] = "c4" ->
         [opening |-> 2, eco |-> 2, fen |-> 2, movesBack |-> Len(sans) - 1]
    [] OTHER -> [opening |-> Unset, eco |-> Unset, fen |-> Unset, movesBack |-> Unset]

\* a variant without the test for an annotated game
enrichOneNoSkip(game) ==
  LET sans == cleanMoves(game.moves)
  IN IF sans = <<>> \/ ~replay(sans)
     THEN [game |-> game, outcome |-> "unmatched", replays |-> 1, lookups |-> 0]
     ELSE LET stored == [game EXCEPT !.ply = Len(sans), !.moves = sans]
              result == lookupByMoves(sans)
          IN IF result.opening # Unset
             THEN [game |-> [stored EXCEPT !.ecoJsonFen = result.fen,
                                           !.ecoJsonOpening = result.opening,
                                           !.ecoJsonEco = result.eco,
                                           !.movesBack = result.movesBack],
                   outcome |-> "matched", replays |-> 1, lookups |-> 1]
             ELSE [game |-> stored, outcome |-> "unmatched", replays |-> 1,
                   lookups |-> 1]

\* a variant that looks the line up as far as it replays
enrichOneLegalPrefix(game) ==
  IF game.ecoJsonFen # Unset
  THEN [game |-> game, outcome |-> "skipped", replays |-> 0, lookups |-> 0]
  ELSE LET all == cleanMoves(game.moves)
           sans == SelectSeq(all, LAMBDA t : t \in LegalSans)
       IN IF sans = <<>>
          THEN [game |-> game, outcome |-> "unmatched", replays |-> 0,
                lookups |-> 0]
          ELSE LET stored == [game EXCEPT !.ply = Len(sans), !.moves = sans]
                   result == lookupByMoves(sans)
               IN IF result.opening # Unset
                  THEN [game |-> [stored EXCEPT !.ecoJsonFen = result.fen,
                                                !.ecoJsonOpening = result.opening,
                                                !.ecoJsonEco = result.eco,
                                                !.movesBack = result.movesBack],
                        outcome |-> "matched", replays |-> 1, lookups |-> 1]
                  ELSE [game |-> stored, outcome |-> "unmatched", replays |-> 1,
                        lookups |-> 1]

\* a variant that stores ply and the clean moves before the replay
enrichOneStoreFirst(game) ==
  IF game.ecoJsonFen # Unset
  THEN [game |-> game, outcome |-> "skipped", replays |-> 0, lookups |-> 0]
  ELSE LET sans == cleanMoves(game.moves)
           stored == [game EXCEPT !.ply = Len(sans), !.moves = sans]
       IN IF sans = <<>>
          THEN [game |-> game, outcome |-> "unmatched", replays |-> 0,
                lookups |-> 0]
          ELSE IF ~replay(sans)
               THEN [game |-> stored, outcome |-> "unmatched", replays |-> 1,
                     lookups |-> 0]
               ELSE LET result == lookupByMoves(sans)
                    IN IF result.opening # Unset
                       THEN [game |-> [stored EXCEPT
                                         !.ecoJsonFen = result.fen,
                                         !.ecoJsonOpening = result.opening,
                                         !.ecoJsonEco = result.eco,
                                         !.movesBack = result.movesBack],
                             outcome |-> "matched", replays |-> 1, lookups |-> 1]
                       ELSE [game |-> stored, outcome |-> "unmatched",
                             replays |-> 1, lookups |-> 1]

\* one iteration of the enrichment loop: the game as it is left, how it is
\* counted, and whether its moves were replayed and looked up
enrichOne(game) ==
  IF game.ecoJsonFen # Unset
  THEN [game |-> game, outcome |-> "skipped", replays |-> 0, lookups |-> 0]
  ELSE LET sans == cleanMoves(game.moves)
       IN IF sans = <<>>
          THEN [game |-> game, outcome |-> "unmatched", replays |-> 0,
                lookups |-> 0]
          ELSE IF ~replay(sans)
               THEN [game |-> game, outcome |-> "unmatched", replays |-> 1,
                     lookups |-> 0]
               ELSE LET stored == [game EXCEPT !.ply = Len(sans), !.moves = sans]
                        result == lookupByMoves(sans)
                    IN IF result.opening # Unset
                       THEN [game |-> [stored EXCEPT
                                         !.ecoJsonFen = result.fen,
                                         !.ecoJsonOpening = result.opening,
                                         !.ecoJsonEco = result.eco,
                                         !.movesBack = result.movesBack],
                             outcome |-> "matched", replays |-> 1, lookups |-> 1]
                       ELSE [game |-> stored, outcome |-> "unmatched",
                             replays |-> 1, lookups |-> 1]

\* a variant that takes the hash again from the game as it is stored
enrichGameRehashed(game) ==
  LET g == enrichOne(game).game
  IN [g EXCEPT !.hash = IF g.moves = game.moves THEN @ ELSE @ + Len(g.moves)]

enrichGame(game) == enrichOne(game).game

enrichGamesWithEcoJson(gs) == [i \in DOMAIN gs |-> enrichGame(gs[i])]

\* Array.prototype.sort() on the file names: chunk-10.json sorts before
\* chunk-2.json, chunk-1.json before chunk-10.json
Digits(n) == IF n < 10 THEN <<n>> ELSE <<n \div 10, n % 10>>

LexLess(a, b) ==
  LET da == Digits(a)
      db == Digits(b)
  IN IF da[1] # db[1] THEN da[1] < db[1]
     ELSE IF Len(da) # Len(db) THEN Len(da) < Len(db)
     ELSE Len(da) = 2 /\ da[2] < db[2]

RECURSIVE SortedNames(_)
SortedNames(S) ==
  IF S = {} THEN <<>>
  ELSE LET m == CHOOSE x \in S : \A y \in S \ {x} : LexLess(x, y)
       IN <<m>> \o SortedNames(S \ {m})

\* the chunks buildIndexes loads: the chunk files, or else the legacy file
loadChunks(dsk, legacy) ==
  IF DOMAIN dsk # {}
  THEN LET names == SortedNames(DOMAIN dsk)
       IN [i \in DOMAIN names |-> [chunkId |-> names[i], games |-> dsk[names[i]].games]]
  ELSE <<[chunkId |-> 0, games |-> legacy]>>

RECURSIVE concatGames(_)
concatGames(loadedChunks) ==
  IF loadedChunks = <<>> THEN <<>>
  ELSE Head(loadedChunks).games \o concatGames(Tail(loadedChunks))

enrichedHashSet(gs) ==
  {gs[i].hash : i \in {j \in DOMAIN gs : gs[j].ecoJsonFen # Unset /\ gs[j].hash # 0}}

\* the games in loading order with every later game of a hash left out; a
\* game without a hash is kept
RECURSIVE dedupeByHash(_, _)
dedupeByHash(gs, seen) ==
  IF gs = <<>> THEN <<>>
  ELSE LET g == Head(gs)
       IN IF g.hash = 0 THEN <<g>> \o dedupeByHash(Tail(gs), seen)
          ELSE IF g.hash \in seen THEN dedupeByHash(Tail(gs), seen)
          ELSE <<g>> \o dedupeByHash(Tail(gs), seen \cup {g.hash})

\* Array.prototype.sort with the comparator on hash: ascending and stable
RECURSIVE sortByHash(_)
sortByHash(gs) ==
  IF gs = <<>> THEN <<>>
  ELSE LET m == CHOOSE i \in DOMAIN gs :
                  \A j \in DOMAIN gs :
                    \/ gs[i].hash < gs[j].hash
                    \/ gs[i].hash = gs[j].hash /\ i <= j
       IN <<gs[m]>> \o sortByHash(SubSeq(gs, 1, m - 1)
                                    \o SubSeq(gs, m + 1, Len(gs)))

\* the new chunks: slices of CHUNK_SIZE games
reslice(deduped) ==
  LET totalChunks == (Len(deduped) + CHUNK_SIZE - 1) \div CHUNK_SIZE
  IN [i \in 1..totalChunks |->
        [chunkId |-> i - 1,
         startIdx |-> (i - 1) * CHUNK_SIZE,
         endIdx |-> Min((i - 1) * CHUNK_SIZE + CHUNK_SIZE, Len(deduped)),
         games |-> SubSeq(deduped, (i - 1) * CHUNK_SIZE + 1,
                          Min((i - 1) * CHUNK_SIZE + CHUNK_SIZE, Len(deduped)))]]

\* buildGameChunks: the games sorted by hash and sliced into chunks of
\* CHUNK_SIZE; buildIndexes does not call it
buildGameChunks(gs) == reslice(sortByHash(gs))

\* a variant that writes the chunks buildGameChunks makes of all the games
saveChunksFromGameChunks(loadedChunks, enrichedHashes, dsk) ==
  LET chunks == buildGameChunks(enrichGamesWithEcoJson(concatGames(loadedChunks)))
  IN [k \in DOMAIN dsk \cup {chunks[i].chunkId : i \in DOMAIN chunks}
        |-> IF k < Len(chunks) THEN ChunkFile("full", chunks[k + 1].games)
            ELSE dsk[k]]

RECURSIVE saveChunks(_, _, _)
saveChunks(loadedChunks, enrichedHashes, dsk) ==
  IF loadedChunks = <<>> THEN dsk
  ELSE LET chunkId == Head(loadedChunks).chunkId
           gs == enrichGamesWithEcoJson(Head(loadedChunks).games)
           hasNewEnrichment ==
             \E i \in DOMAIN gs : gs[i].hash # 0 /\ gs[i].hash \in enrichedHashes
       IN saveChunks(Tail(loadedChunks), enrichedHashes,
                     IF ~hasNewEnrichment /\ chunkId \in DOMAIN dsk
                     THEN dsk
                     ELSE WriteChunk(dsk, chunkId, ChunkFile("full", gs)))

\* master-index.json as buildIndexes writes it: one entry per loaded
\* chunk, in the order of loading
buildMasterIndex(loadedChunks) ==
  [exists |-> TRUE,
   totalGames |-> Len(concatGames(loadedChunks)),
   totalChunks |-> Len(loadedChunks),
   chunks |-> [i \in DOMAIN loadedChunks |->
                 [id |-> loadedChunks[i].chunkId,
                  startIdx |-> (i - 1) * CHUNK_SIZE,
                  endIdx |-> (i - 1) * CHUNK_SIZE + Len(loadedChunks[i].games)]]]

\* a variant that takes the chunk of a game to be idx \div CHUNK_SIZE
buildGameToChunkIndexByFormula(loadedChunks) ==
  [x \in {concatGames(loadedChunks)[i].idx : i \in DOMAIN concatGames(loadedChunks)}
     |-> x \div CHUNK_SIZE]

\* idx -> chunkId over the loaded chunks, a later game replacing an
\* earlier one of the same idx
RECURSIVE buildGameToChunkIndex(_)
buildGameToChunkIndex(loadedChunks) ==
  IF loadedChunks = <<>> THEN EmptyMap
  ELSE LET last == loadedChunks[Len(loadedChunks)]
           before == buildGameToChunkIndex(SubSeq(loadedChunks, 1,
                                                  Len(loadedChunks) - 1))
       IN [x \in DOMAIN before \cup {last.games[i].idx : i \in DOMAIN last.games}
             |-> IF \E i \in DOMAIN last.games : last.games[i].idx = x
                 THEN last.chunkId ELSE before[x]]

BuildIndexes ==
  /\ pc = "idle"
  /\ upPc = "idle"
  /\ bkPc = "idle"
  /\ rebuilds < MaxRebuilds
  /\ \E n \in 0..MaxLegacy :
       LET legacy == LegacyGames(n)
           loadedChunks == loadChunks(disk, legacy)
           allGames == concatGames(loadedChunks)
           originallyEnriched == enrichedHashSet(allGames)
           enrichedHashes == enrichedHashSet(enrichGamesWithEcoJson(allGames))
                               \ originallyEnriched
       IN /\ DOMAIN disk # {} \/ n > 0
          /\ disk' = saveChunks(loadedChunks, enrichedHashes, disk)
          /\ masterFile' = buildMasterIndex(loadedChunks)
          /\ gameToChunkFile' = [exists |-> TRUE,
                                 index |-> buildGameToChunkIndex(loadedChunks)]
  /\ now' = now + 1
  /\ dedupFile' = [exists |-> TRUE, index |-> dedupFile.index]
  /\ trackingFile' = IF trackingFile.exists THEN trackingFile
                     ELSE [exists |-> TRUE, lastPageVisit |-> now',
                           files |-> EmptyMap]
  /\ rebuilds' = rebuilds + 1
  /\ UNCHANGED <<runVars, gameVars>>
  /\ UNCHANGED syncVars
  /\ UNCHANGED backupVars
  /\ UNCHANGED enrichVars
  /\ UNCHANGED restoreVars
  /\ UNCHANGED writeVars
  /\ lastOp' = "build"
  /\ UNCHANGED fetchVars
  /\ UNCHANGED probeVars
  /\ UNCHANGED indexVars

(***************************************************************************)
(* enrichGamesWithEcoJson taken alone, one game of the loop per step, on   *)
(* any list of games a store can hold: fresh from a download (move text as *)
(* in the PGN, ply 0), left by an earlier enrichment, or annotated by an   *)
(* earlier version of the tool.  A second enrichment of the same games is  *)
(* the next rebuild.                                                       *)
(***************************************************************************)
MaxEnrichGames == 2   \* games handed to one enrichment
MaxEnrichRuns == 2    \* enrichments of the same games

MoveTexts ==
  {<<>>, <<"1-0">>, <<"1.", "e4", "e5", "1-0">>, <<"e4">>,
   <<"1.", "d4", "{c}">>, <<"1.", "e4", "Qh9">>, <<"[h]", "c4", "(v)">>}

Fresh(moves) ==
  [GameMetadata(0, 0, 1) EXCEPT !.moves = moves]

GameKinds ==
  {Fresh(m) : m \in MoveTexts}
    \cup {enrichGame(Fresh(m)) : m \in MoveTexts}
    \cup {[Fresh(<<"1.", "d4">>) EXCEPT !.ecoJsonFen = 3, !.ecoJsonOpening = 3,
                                        !.ecoJsonEco = 3, !.movesBack = 0]}

\* position i of the list holds the game of idx i - 1 and hash i
EnrichInputs ==
  UNION {{[i \in 1..n |-> [kinds[i] EXCEPT !.idx = i - 1, !.hash = i]] :
            kinds \in [1..n -> GameKinds]} : n \in 0..MaxEnrichGames}

InitEnrich ==
  /\ IdleBackup
  /\ IdleRestore
  /\ IdleWrite
  /\ IdleArtifacts
  /\ IdleFetch
  /\ IdleProbe
  /\ IdleIndex
  /\ remote = EmptyMap
  /\ IdleSync
  /\ disk = EmptyMap
  /\ dedupFile = NoDedup
  /\ trackingFile = NoTracking
  /\ now = 0
  /\ IdleRun
  /\ lastWrites = {}
  /\ runs = 0
  /\ rebuilds = 0
  /\ enGames \in EnrichInputs
  /\ enInput = enGames
  /\ enPos = 0
  /\ enStats = ZeroEnrich
  /\ enRuns = 1

countOutcome(tally, r) ==
  [matched |-> tally.matched + (IF r.outcome = "matched" THEN 1 ELSE 0),
   unmatched |-> tally.unmatched + (IF r.outcome = "unmatched" THEN 1 ELSE 0),
   skipped |-> tally.skipped + (IF r.outcome = "skipped" THEN 1 ELSE 0),
   replays |-> tally.replays + r.replays,
   lookups |-> tally.lookups + r.lookups]

EnrichNext ==
  /\ enRuns >= 1
  /\ enPos < Len(enGames)
  /\ LET r == enrichOne(enGames[enPos + 1])
     IN /\ enGames' = [enGames EXCEPT ![enPos + 1] = r.game]
        /\ enStats' = countOutcome(enStats, r)
  /\ enPos' = enPos + 1
  /\ UNCHANGED <<enInput, enRuns>>
  /\ UNCHANGED <<fileVars, now, runVars, gameVars, rebuilds, syncVars,
                 backupVars, restoreVars, writeVars, artifactVars, fetchVars, probeVars, indexVars>>

EnrichAgain ==
  /\ enRuns >= 1
  /\ enRuns < MaxEnrichRuns
  /\ enPos = Len(enGames)
  /\ enInput' = enGames
  /\ enPos' = 0
  /\ enStats' = ZeroEnrich
  /\ enRuns' = enRuns + 1
  /\ UNCHANGED enGames
  /\ UNCHANGED <<fileVars, now, runVars, gameVars, rebuilds, syncVars,
                 backupVars, restoreVars, writeVars, artifactVars, fetchVars, probeVars, indexVars>>

Enrich == EnrichNext \/ EnrichAgain

SpecEnrich == InitEnrich /\ [][Enrich]_vars

Annotated(game) == game.ecoJsonFen # Unset

annotation(game) ==
  <<game.ecoJsonFen, game.ecoJsonOpening, game.ecoJsonEco, game.movesBack>>

\* C15: enrichment skips annotated records - a game that already has an
\* ecoJsonFen is neither replayed nor looked up, keeps all its fields and is
\* counted as skipped; when every game handed to the enrichment is annotated
\* the finished enrichment has done zero lookups and skipped every game.
C15_SkipsAnnotated ==
  [][/\ (/\ enPos < Len(enGames)
         /\ Annotated(enGames[enPos + 1])
         /\ enPos' = enPos + 1)
          => /\ enGames' = enGames
             /\ enStats' = [enStats EXCEPT !.skipped = @ + 1]
     /\ (/\ enPos' = Len(enGames')
         /\ \A i \in DOMAIN enInput' : Annotated(enInput'[i]))
          => /\ enStats'.lookups = 0
             /\ enStats'.replays = 0
             /\ enStats'.skipped = Len(enGames')]_vars

\* a first enrichment of two or more games, all annotated, has finished
C15_Witness ==
  /\ enRuns = 1
  /\ Len(enGames) >= 2
  /\ enPos = Len(enGames)
  /\ \A i \in DOMAIN enInput : Annotated(enInput[i])
  /\ enStats.skipped = Len(enGames)

Unreplayable(game) ==
  LET sans == cleanMoves(game.moves)
  IN sans = <<>> \/ ~replay(sans)

\* C17: a game that is not annotated and whose move text is empty after
\* cleaning, or holds a move the replay refuses, keeps its four annotation
\* fields unset and adds exactly one to unmatched and nothing to matched or
\* skipped; the loop goes on to the next game, so every game handled so far
\* has been counted exactly once.
C17_UnreplayableUnmatched ==
  [][(enPos < Len(enGames) /\ enPos' = enPos + 1)
       => /\ (~Annotated(enGames[enPos + 1]) /\ Unreplayable(enGames[enPos + 1]))
               => /\ annotation(enGames'[enPos + 1]) =
                       <<Unset, Unset, Unset, Unset>>
                  /\ enStats'.unmatched = enStats.unmatched + 1
                  /\ enStats'.matched = enStats.matched
                  /\ enStats'.skipped = enStats.skipped
                  /\ enStats'.lookups = enStats.lookups
          /\ enStats'.matched + enStats'.unmatched + enStats'.skipped = enPos'
          /\ Len(enGames') = Len(enGames)]_vars

\* a game with a refused move was counted unmatched and the game after it
\* was then matched
C17_Witness ==
  /\ enRuns = 1
  /\ Len(enGames) >= 2
  /\ enPos = Len(enGames)
  /\ ~Annotated(enInput[1])
  /\ cleanMoves(enInput[1].moves) # <<>>
  /\ ~replay(cleanMoves(enInput[1].moves))
  /\ ~Annotated(enGames[1])
  /\ ~Annotated(enInput[2])
  /\ Annotated(enGames[2])
  /\ enStats.unmatched = 1
  /\ enStats.matched = 1

identity(game) == <<game.idx, game.hash, game.sourceFile>>

\* C18: a rebuild rewrites in place only the annotation fields - for every
\* game and every other field (moves, ply, sourceFile, hash, idx among them)
\* the value after the enrichment of a game equals the value before it.
C18_OnlyAnnotationRewritten ==
  [][(enPos < Len(enGames) /\ enPos' = enPos + 1)
       => \A i \in DOMAIN enGames :
            /\ identity(enGames'[i]) = identity(enGames[i])
            /\ enGames'[i].moves = enGames[i].moves
            /\ enGames'[i].ply = enGames[i].ply]_vars

\* C18 as the code has it: the enrichment of a game rewrites the annotation
\* fields and, for a game that is not annotated and whose moves replay, ply
\* (the number of clean moves) and moves (the clean moves); idx, hash and
\* sourceFile of every game keep their values, and so do ply and moves of
\* an annotated game and of a game whose moves do not replay.
C18_AnnotationPlyAndMoves ==
  [][(enPos < Len(enGames) /\ enPos' = enPos + 1)
       => \A i \in DOMAIN enGames :
            LET before == enGames[i]
                after == enGames'[i]
            IN /\ identity(after) = identity(before)
               /\ IF i = enPos + 1 /\ ~Annotated(before) /\ ~Unreplayable(before)
                  THEN /\ after.moves = cleanMoves(before.moves)
                       /\ after.ply = Len(cleanMoves(before.moves))
                  ELSE /\ after = before \/ i = enPos + 1
                       /\ after.moves = before.moves
                       /\ after.ply = before.ply]_vars

\* a fresh game with move numbers and a result token has been enriched: its
\* moves and ply are no longer those it was stored with
C18_Witness ==
  /\ enRuns = 1
  /\ enPos >= 1
  /\ ~Annotated(enInput[1])
  /\ enInput[1].ply = 0
  /\ enGames[1].ply = 2
  /\ enGames[1].moves # enInput[1].moves
  /\ identity(enGames[1]) = identity(enInput[1])

(***************************************************************************)
(* buildOpeningByNameIndex taken alone, one game of the loop per step, on  *)
(* any list of games an enrichment can leave: not annotated, or annotated  *)
(* with the name, the position and the ECO code of one opening of the      *)
(* book.  Several openings of the book share a name.                       *)
(***************************************************************************)
MaxIndexGames == 3    \* games handed to the index builder

\* openings of the book: name, position, ECO code
BookOpenings ==
  {[name |-> 1, fen |-> 1, eco |-> 1], [name |-> 1, fen |-> 2, eco |-> 1],
   [name |-> 1, fen |-> 3, eco |-> 2], [name |-> 2, fen |-> 4, eco |-> 2],
   [name |-> 2, fen |-> 5, eco |-> 3]}

AnnotatedWith(o) ==
  [Fresh(<<"e4">>) EXCEPT !.ply = 1, !.ecoJsonFen = o.fen,
                          !.ecoJsonOpening = o.name, !.ecoJsonEco = o.eco]

IndexKinds == {Fresh(<<"d4">>)} \cup {AnnotatedWith(o) : o \in BookOpenings}

\* position i of the list holds the game of idx i - 1 and hash i
IndexInputs ==
  UNION {{[i \in 1..n |-> [kinds[i] EXCEPT !.idx = i - 1, !.hash = i]] :
            kinds \in [1..n -> IndexKinds]} : n \in 0..MaxIndexGames}

InitIndex ==
  /\ IdleBackup
  /\ IdleRestore
  /\ IdleWrite
  /\ IdleArtifacts
  /\ IdleFetch
  /\ IdleProbe
  /\ IdleEnrich
  /\ remote = EmptyMap
  /\ IdleSync
  /\ disk = EmptyMap
  /\ dedupFile = NoDedup
  /\ trackingFile = NoTracking
  /\ now = 0
  /\ IdleRun
  /\ lastWrites = {}
  /\ runs = 0
  /\ rebuilds = 0
  /\ ixGames \in IndexInputs
  /\ ixPos = 0
  /\ byName = EmptyMap

\* a variant in which the latest game of a name gives its position and code
indexByNameLatest(index, game) ==
  LET openingName == game.ecoJsonOpening
      fen == game.ecoJsonFen
      eco == game.ecoJsonEco
  IN IF openingName # Unset /\ fen # Unset /\ eco # Unset
     THEN Put(index, openingName,
              [fen |-> fen, eco |-> eco,
               gameIds |-> IF openingName \in DOMAIN index
                           THEN Append(index[openingName].gameIds, game.idx)
                           ELSE <<game.idx>>])
     ELSE index

\* one iteration of the loop of buildOpeningByNameIndex
indexByName(index, game) ==
  LET openingName == game.ecoJsonOpening
      fen == game.ecoJsonFen
      eco == game.ecoJsonEco
  IN IF openingName # Unset /\ fen # Unset /\ eco # Unset
     THEN LET entry == IF openingName \in DOMAIN index THEN index[openingName]
                       ELSE [fen |-> fen, eco |-> eco, gameIds |-> <<>>]
          IN Put(index, openingName,
                 [entry EXCEPT !.gameIds = Append(@, game.idx)])
     ELSE index

IndexNext ==
  /\ ixPos < Len(ixGames)
  /\ byName' = indexByName(byName, ixGames[ixPos + 1])
  /\ ixPos' = ixPos + 1
  /\ UNCHANGED ixGames
  /\ UNCHANGED <<fileVars, now, runVars, gameVars, rebuilds, syncVars,
                 backupVars, enrichVars, restoreVars, writeVars, artifactVars, fetchVars, probeVars>>

SpecIndex == InitIndex /\ [][IndexNext]_vars

\* positions among the first n games that carry the name, in order
Carriers(n, name) ==
  SelectSeq([i \in 1..n |-> i], LAMBDA i : ixGames[i].ecoJsonOpening = name)

\* C23: in the opening-by-name index the fen and eco of a name are those of
\* the first game carrying that name in iteration order, gameIds holds the
\* idx of every game carrying it, in iteration order, and a later game of
\* the name never replaces the fen or eco stored for it.
C23_FirstIsRepresentative ==
  [][ixPos' = ixPos + 1 =>
       /\ DOMAIN byName' =
            {ixGames[i].ecoJsonOpening : i \in 1..ixPos'} \ {Unset}
       /\ \A name \in DOMAIN byName' :
            LET carriers == Carriers(ixPos', name)
            IN /\ byName'[name].fen = ixGames[carriers[1]].ecoJsonFen
               /\ byName'[name].eco = ixGames[carriers[1]].ecoJsonEco
               /\ byName'[name].gameIds =
                    [j \in DOMAIN carriers |-> ixGames[carriers[j]].idx]
       /\ \A name \in DOMAIN byName :
            /\ byName'[name].fen = byName[name].fen
            /\ byName'[name].eco = byName[name].eco]_vars

\* three games of one name have been indexed, the later ones with another
\* position and another code than the first
C23_Witness ==
  /\ ixPos = 3
  /\ \A i \in 1..3 : ixGames[i].ecoJsonOpening = 1
  /\ ixGames[2].ecoJsonFen # ixGames[1].ecoJsonFen
  /\ ixGames[3].ecoJsonEco # ixGames[1].ecoJsonEco
  /\ byName[1].fen = ixGames[1].ecoJsonFen
  /\ byName[1].gameIds = <<0, 1, 2>>

(***************************************************************************)
(* batchCheckFileMetadata and the classification taken alone.  Every HEAD  *)
(* request is started when the batch starts; the requests then get their   *)
(* outcome one at a time, in any order: an OK response with or without a   *)
(* Last-Modified header, a response that is not OK, or a rejection.  The   *)
(* batch returns when Promise.all settles.                                 *)
(***************************************************************************)
MaxProbeFiles == 3    \* filenames handed to one metadata check

ProbeOutcomes ==
  {[kind |-> "ok", lastModified |-> t] : t \in Times \cup {NoTime}}
    \cup {[kind |-> "status", lastModified |-> NoTime],
          [kind |-> "rejected", lastModified |-> NoTime]}

InitProbe ==
  /\ IdleBackup
  /\ IdleRestore
  /\ IdleWrite
  /\ IdleArtifacts
  /\ IdleFetch
  /\ IdleEnrich
  /\ IdleIndex
  /\ remote = EmptyMap
  /\ IdleSync
  /\ disk = EmptyMap
  /\ dedupFile = NoDedup
  /\ trackingFile = NoTracking
  /\ now = 0
  /\ IdleRun
  /\ lastWrites = {}
  /\ runs = 0
  /\ rebuilds = 0
  /\ \E n \in 0..MaxProbeFiles : pbFiles = [i \in 1..n |-> i]
  /\ pbLastVisit \in Times \cup {NoTime}
  /\ pbPc = "start"
  /\ pbIssued = <<>>
  /\ pbSettled = EmptyMap
  /\ pbResults = EmptyMap
  /\ pbToProcess = <<>>

\* what the promise of one filename settles to: the callback catches a
\* rejected fetch and returns a result that is not a success
probePromise(answered) ==
  [state |-> "fulfilled",
   success |-> answered.kind = "ok",
   response |-> IF answered.kind = "ok" THEN answered.lastModified
                ELSE ProbeFailed]

otherFrame ==
  <<fileVars, now, runVars, gameVars, rebuilds, syncVars, backupVars,
    enrichVars, restoreVars, writeVars, artifactVars, fetchVars, indexVars>>

\* filenames.map(...): every callback runs up to its fetch
ProbeStart ==
  /\ pbPc = "start"
  /\ pbIssued' = pbFiles
  /\ pbPc' = "waiting"
  /\ UNCHANGED <<pbFiles, pbLastVisit, pbSettled, pbResults, pbToProcess>>
  /\ UNCHANGED otherFrame

ProbeSettles ==
  /\ pbPc = "waiting"
  /\ \E f \in Range(pbIssued) \ DOMAIN pbSettled, answered \in ProbeOutcomes :
       pbSettled' = Put(pbSettled, f, probePromise(answered))
  /\ UNCHANGED <<pbFiles, pbLastVisit, pbPc, pbIssued, pbResults, pbToProcess>>
  /\ UNCHANGED otherFrame

\* Promise.all: rejected as soon as one promise is rejected, fulfilled when
\* all are fulfilled; then the successes are collected
ProbeReturn ==
  /\ pbPc = "waiting"
  /\ LET rejected == \E f \in DOMAIN pbSettled : pbSettled[f].state = "rejected"
     IN /\ rejected \/ DOMAIN pbSettled = Range(pbIssued)
        /\ IF rejected
           THEN /\ pbPc' = "rejected"
                /\ UNCHANGED pbResults
           ELSE /\ pbPc' = "returned"
                /\ pbResults' =
                     batchCheckFileMetadata(pbFiles,
                                            [f \in DOMAIN pbSettled |->
                                               pbSettled[f].response])
  /\ UNCHANGED <<pbFiles, pbLastVisit, pbIssued, pbSettled, pbToProcess>>
  /\ UNCHANGED otherFrame

ProbeClassify ==
  /\ pbPc = "returned"
  /\ pbToProcess' = classify(pbFiles, pbResults, pbLastVisit)
  /\ pbPc' = "classified"
  /\ UNCHANGED <<pbFiles, pbLastVisit, pbIssued, pbSettled, pbResults>>
  /\ UNCHANGED otherFrame

Probe == ProbeStart \/ ProbeSettles \/ ProbeReturn \/ ProbeClassify

SpecProbe == InitProbe /\ [][Probe]_vars

IsSubsequence(s, t) ==
  \A i \in DOMAIN s, j \in DOMAIN s :
    i < j => \E a \in DOMAIN t, b \in DOMAIN t :
               a < b /\ t[a] = s[i] /\ t[b] = s[j]

\* C24: in the classification, a discovered file whose probe failed (a
\* response that is not OK, or a rejected request) or came back without a
\* Last-Modified header is put in filesToProcess, like a file found changed
\* since the last visit; the list holds discovered files only, in the order
\* of discovery.
C24_FailedProbeIsProcessed ==
  pbPc = "classified" =>
    /\ \A f \in Range(pbFiles) :
         (\/ ~pbSettled[f].success
          \/ pbSettled[f].response = NoTime
          \/ pbLastVisit = NoTime
          \/ pbSettled[f].response > pbLastVisit)
           <=> f \in Range(pbToProcess)
    /\ Range(pbToProcess) \subseteq Range(pbFiles)
    /\ IsSubsequence(pbToProcess, pbFiles)

\* after an earlier visit, one probe failed, one had no Last-Modified
\* header and one found the file unchanged: the first two are processed
C24_Witness ==
  /\ pbPc = "classified"
  /\ Len(pbFiles) = 3
  /\ pbLastVisit = 1
  /\ ~pbSettled[1].success
  /\ pbSettled[2].success /\ pbSettled[2].response = NoTime
  /\ pbSettled[3].success /\ pbSettled[3].response = 0
  /\ pbToProcess = <<1, 2>>

\* C25: batchCheckFileMetadata starts exactly one request per filename, all
\* of them before any has an outcome; whatever the order and the outcomes,
\* the batch is never rejected and the map it returns has exactly the
\* filenames whose request was answered OK, each with the Last-Modified of
\* its own response (no filename, no request and an empty map).
C25_BatchIsolatesFailures ==
  /\ pbPc \notin {"idle", "start"} => pbIssued = pbFiles
  /\ DOMAIN pbSettled \subseteq Range(pbIssued)
  /\ pbPc # "rejected"
  /\ pbPc \in {"returned", "classified"} =>
       /\ DOMAIN pbResults = {f \in Range(pbFiles) : pbSettled[f].success}
       /\ \A f \in DOMAIN pbResults : pbResults[f] = pbSettled[f].response

\* a batch of three has returned: the first two requests failed (rejected
\* or answered with an error status), the third was answered OK
C25_Witness ==
  /\ pbPc = "returned"
  /\ Len(pbFiles) = 3
  /\ ~pbSettled[1].success
  /\ ~pbSettled[2].success
  /\ pbSettled[3].success
  /\ DOMAIN pbResults = {3}

Download ==
  \/ DownloadPageUnchanged
  \/ DownloadNothingToDo
  \/ DownloadBegin
  \/ FileFails
  \/ FileProcessed
  \/ DownloadFinish

Next == Download \/ BuildIndexes

Spec == Init /\ [][Next]_vars

(***************************************************************************)
(* processGames taken alone, one candidate per step, from any dedup index  *)
(* a store can hold: entries of earlier runs and earlier files.            *)
(***************************************************************************)
DedupIndexes ==
  UNION {{[k \in S |-> k - 1]} : S \in SUBSET Keys}

InitProcess ==
  /\ IdleBackup
  /\ IdleRestore
  /\ IdleWrite
  /\ IdleArtifacts
  /\ IdleFetch
  /\ IdleProbe
  /\ IdleIndex
  /\ IdleEnrich
  /\ remote = EmptyMap
  /\ IdleSync
  /\ disk = EmptyMap
  /\ dedupFile = NoDedup
  /\ trackingFile = NoTracking
  /\ now = 1
  /\ pc = "games"
  /\ visitDate = 1
  /\ limitedFiles = <<1>>
  /\ fileIdx = 0
  /\ deduplicationIndex \in DedupIndexes
  /\ lastChunk = NoChunk
  /\ nextGameId = MaxKeys
  /\ allNewGames = <<>>
  /\ sourceTracking = [lastPageVisit |-> NoTime, files |-> EmptyMap]
  /\ acceptedThisRun = <<>>
  /\ pgn \in PgnContents
  /\ games = <<>>
  /\ gameIndex = MaxKeys
  /\ stats = ZeroStats
  /\ lastWrites = {}
  /\ runs = 1
  /\ rebuilds = 0

ProcessGame ==
  /\ pc = "games"
  /\ pgn # <<>>
  /\ LET st == processOne(Head(pgn), limitedFiles[fileIdx + 1],
                          [games |-> games,
                           deduplicationIndex |-> deduplicationIndex,
                           gameIndex |-> gameIndex, stats |-> stats])
     IN /\ games' = st.games
        /\ deduplicationIndex' = st.deduplicationIndex
        /\ gameIndex' = st.gameIndex
        /\ stats' = st.stats
  /\ pgn' = Tail(pgn)
  /\ UNCHANGED <<fileVars, now, rebuilds, pc, visitDate, limitedFiles, fileIdx,
                 lastChunk, nextGameId, allNewGames, sourceTracking,
                 acceptedThisRun, lastWrites, runs>>
  /\ UNCHANGED syncVars
  /\ UNCHANGED backupVars
  /\ UNCHANGED enrichVars
  /\ UNCHANGED restoreVars
  /\ UNCHANGED writeVars
  /\ UNCHANGED artifactVars
  /\ UNCHANGED fetchVars
  /\ UNCHANGED probeVars
  /\ UNCHANGED indexVars

SpecProcess == InitProcess /\ [][ProcessGame]_vars

\* C3: duplicate detection precedes id assignment - a candidate whose hash
\* is already in the dedup index is counted as a duplicate and leaves the
\* admitted games, the dedup index and the next id unchanged.
C3_DuplicateBeforeId ==
  [][(/\ pgn # <<>>
      /\ Head(pgn).kind = "ok"
      /\ Head(pgn).hash \in DOMAIN deduplicationIndex)
       => /\ stats'.duplicates = stats.duplicates + 1
          /\ stats'.accepted = stats.accepted
          /\ games' = games
          /\ deduplicationIndex' = deduplicationIndex
          /\ gameIndex' = gameIndex]_vars

\* a file whose second game repeats its first: one accepted, one duplicate
C3_Witness ==
  /\ pc = "games"
  /\ pgn = <<>>
  /\ stats.accepted = 1
  /\ stats.duplicates = 1
  /\ Len(games) = 1
  /\ gameIndex = nextGameId + 1

(***************************************************************************)
(* saveGamesToChunks taken alone: a store of full chunks 0..L-1 and a last *)
(* chunk L of m <= CHUNK_SIZE games, and n new games in admission order.   *)
(***************************************************************************)
MaxLastId == 2        \* id of the existing last chunk
MaxNew == 5           \* games handed to one save

StoredGame(i) == GameMetadata(i, 0, 0)

StoredGames(from, count) == [i \in 1..count |-> StoredGame(from + i - 1)]

InitSave ==
  /\ IdleBackup
  /\ IdleRestore
  /\ IdleWrite
  /\ IdleArtifacts
  /\ IdleFetch
  /\ IdleProbe
  /\ IdleIndex
  /\ IdleEnrich
  /\ remote = EmptyMap
  /\ IdleSync
  /\ \E L \in 0..MaxLastId, m \in 0..CHUNK_SIZE, n \in 0..MaxNew,
        layout \in {"minimal", "full"}, hasChunk \in BOOLEAN :
       /\ hasChunk \/ (L = 0 /\ m = 0 /\ layout = "minimal")
       /\ disk = IF hasChunk
                 THEN [k \in 0..L |->
                         ChunkFile(layout,
                                   StoredGames(k * CHUNK_SIZE,
                                               IF k = L THEN m ELSE CHUNK_SIZE))]
                 ELSE EmptyMap
       /\ lastChunk = IF hasChunk
                      THEN [present |-> TRUE, id |-> L,
                            games |-> StoredGames(L * CHUNK_SIZE, m)]
                      ELSE NoChunk
       /\ allNewGames = StoredGames(L * CHUNK_SIZE + m, n)
  /\ dedupFile = NoDedup
  /\ trackingFile = NoTracking
  /\ now = 1
  /\ pc = "save"
  /\ visitDate = 1
  /\ limitedFiles = <<1>>
  /\ fileIdx = 1
  /\ deduplicationIndex = EmptyMap
  /\ nextGameId = 0
  /\ sourceTracking = [lastPageVisit |-> NoTime, files |-> EmptyMap]
  /\ acceptedThisRun = <<>>
  /\ pgn = <<>>
  /\ games = <<>>
  /\ gameIndex = 0
  /\ stats = ZeroStats
  /\ lastWrites = {}
  /\ runs = 1
  /\ rebuilds = 0

SaveGames ==
  /\ pc = "save"
  /\ LET saved == saveGamesToChunks(allNewGames, disk, lastChunk)
     IN /\ disk' = saved.dsk
        /\ lastWrites' = saved.written
  /\ pc' = "saved"
  /\ UNCHANGED <<dedupFile, trackingFile, now, rebuilds, gameVars, visitDate,
                 limitedFiles, fileIdx, deduplicationIndex, lastChunk,
                 nextGameId, allNewGames, sourceTracking, acceptedThisRun, runs>>
  /\ UNCHANGED syncVars
  /\ UNCHANGED backupVars
  /\ UNCHANGED enrichVars
  /\ UNCHANGED restoreVars
  /\ UNCHANGED writeVars
  /\ UNCHANGED artifactVars
  /\ UNCHANGED fetchVars
  /\ UNCHANGED probeVars
  /\ UNCHANGED indexVars

SpecSave == InitSave /\ [][SaveGames]_vars

\* C4: capacity-based rollover - after a save of n >= 1 games onto a last
\* chunk L of m games, chunk L, L+1, ... hold the m old games followed by
\* the n new ones, CHUNK_SIZE per chunk in order, the last possibly partial;
\* a new chunk appears iff m + n > CHUNK_SIZE; without a last chunk filling
\* starts at chunk 0.
C4_CapacityRollover ==
  [][(pc = "save" /\ Len(allNewGames) >= 1) =>
       LET L == lastChunk.id
           all == lastChunk.games \o allNewGames
           total == Len(all)
           last == L + ((total - 1) \div CHUNK_SIZE)
       IN /\ DOMAIN disk' = DOMAIN disk \cup (L..last)
          /\ \A k \in L..last :
               disk'[k].games =
                 SubSeq(all, (k - L) * CHUNK_SIZE + 1,
                        Min((k - L + 1) * CHUNK_SIZE, total))
          /\ (\E k \in DOMAIN disk' : k \notin DOMAIN disk /\ lastChunk.present)
               <=> (lastChunk.present /\ total > CHUNK_SIZE)
          /\ ~lastChunk.present => L = 0]_vars

\* a save that filled the last chunk and created two more
C4_Witness ==
  /\ pc = "saved"
  /\ lastChunk.present
  /\ Len(lastChunk.games) \in 1..(CHUNK_SIZE - 1)
  /\ lastChunk.id + 2 \in DOMAIN disk
  /\ Len(disk[lastChunk.id].games) = CHUNK_SIZE


(***************************************************************************)
(* Game ids.  One download run, long enough to save at two checkpoints,    *)
(* and rebuilds, from any store earlier runs can have left: games saved in *)
(* id order, or the store of a run that saved twice onto the last chunk it *)
(* had loaded.                                                             *)
(***************************************************************************)
MaxStored == 2        \* highest id in the store when the run starts
MaxIdGames == 1       \* games in one extracted PGN

StoredFresh(i) == GameMetadata(i, i + 1, 1)

Stored(S) ==
  LET ids == SeqOfSet(S)
  IN saveGamesToChunks([j \in DOMAIN ids |-> StoredFresh(ids[j])],
                       EmptyMap, NoChunk).dsk

Overwritten ==
  LET first == Stored({0})
      loaded == loadExistingChunksData(first).lastChunk
      second == saveGamesToChunks([j \in 1..CHUNK_SIZE |-> StoredFresh(j)],
                                  first, loaded).dsk
  IN saveGamesToChunks(<<StoredFresh(CHUNK_SIZE + 1)>>, second, loaded).dsk

IdStores == {Stored(S) : S \in SUBSET (0..MaxStored)} \cup {Overwritten}

InitIds ==
  /\ IdleBackup
  /\ IdleRestore
  /\ IdleWrite
  /\ IdleArtifacts
  /\ IdleFetch
  /\ IdleProbe
  /\ IdleIndex
  /\ IdleEnrich
  /\ remote = EmptyMap
  /\ IdleSync
  /\ disk \in IdStores
  /\ dedupFile = IF DOMAIN disk = {} THEN NoDedup
                 ELSE [exists |-> TRUE,
                       index |-> loadExistingChunksData(disk).deduplicationIndex]
  /\ trackingFile = NoTracking
  /\ now = 0
  /\ IdleRun
  /\ lastWrites = {}
  /\ runs = 0
  /\ rebuilds = 0

IdPgns ==
  UNION {[1..n -> Candidates] : n \in 0..MaxIdGames}

\* the start of a run whose page has changed and whose files all need
\* processing
IdsBegin ==
  /\ pc = "idle"
  /\ runs = 0
  /\ limitedFiles' = [i \in 1..(CHECKPOINT_FILES + 1) |-> i]
  /\ LET loaded == loadExistingChunksData(disk)
     IN /\ deduplicationIndex' = loaded.deduplicationIndex
        /\ lastChunk' = loaded.lastChunk
        /\ nextGameId' = loaded.maxGameId + 1
  /\ now' = now + 1
  /\ visitDate' = now'
  /\ sourceTracking' = LoadedTracking
  /\ fileIdx' = 0
  /\ allNewGames' = <<>>
  /\ acceptedThisRun' = <<>>
  /\ pc' = "files"
  /\ runs' = runs + 1
  /\ UNCHANGED <<fileVars, gameVars, rebuilds, lastWrites>>
  /\ UNCHANGED syncVars
  /\ UNCHANGED backupVars
  /\ UNCHANGED enrichVars
  /\ UNCHANGED restoreVars
  /\ UNCHANGED writeVars
  /\ UNCHANGED artifactVars
  /\ UNCHANGED fetchVars
  /\ UNCHANGED probeVars
  /\ UNCHANGED indexVars

IdsFileProcessed == FileProcessedFrom(IdPgns)

Ids ==
  IdsBegin \/ FileFails \/ IdsFileProcessed \/ DownloadFinish \/ BuildIndexes

SpecIds == InitIds /\ [][Ids]_vars

MaxChunkId(dsk) == CHOOSE k \in DOMAIN dsk : \A j \in DOMAIN dsk : j <= k

Records(dsk) == UNION {Range(dsk[k].games) : k \in DOMAIN dsk}

\* C19: no download, enrichment or rebuild step changes the idx or the hash
\* of a game persisted in a chunk - a game of a given idx in the chunk files
\* before a step and a game of that idx after it have the same hash, and a
\* game of a given hash before and a game of that hash after have the same
\* idx.
C19_IdxAndHashFixed ==
  [][\A g \in Records(disk), h \in Records(disk') :
       /\ g.idx = h.idx => g.hash = h.hash
       /\ (g.hash = h.hash /\ g.hash # 0) => g.idx = h.idx]_vars

\* a rebuild has annotated a stored game and a download run has then saved
\* a new game next to it
C19_Witness ==
  /\ rebuilds >= 1
  /\ runs >= 1
  /\ pc = "idle"
  /\ \E g \in Records(disk) : g.idx <= MaxStored /\ Annotated(g)
  /\ \E g \in Records(disk) : g.idx > MaxStored

MaxIdx(dsk) ==
  IF Records(dsk) = {} THEN -1
  ELSE CHOOSE m \in {g.idx : g \in Records(dsk)} :
         \A g \in Records(dsk) : g.idx <= m

UniqueIdx(dsk) ==
  \A k1 \in DOMAIN dsk, k2 \in DOMAIN dsk :
    \A i1 \in DOMAIN dsk[k1].games, i2 \in DOMAIN dsk[k2].games :
      dsk[k1].games[i1].idx = dsk[k2].games[i2].idx => (k1 = k2 /\ i1 = i2)

MaxLocalChunks == 2   \* chunk files in data/indexes when uploads start
MaxUploads == 2       \* upload runs per behaviour

ChunkName(id) == [kind |-> "chunk", id |-> id]
DedupName == [kind |-> "dedup", id |-> 0]
TrackingName == [kind |-> "tracking", id |-> 0]
OrphanName == [kind |-> "orphan", id |-> 0]   \* a key without a local file

\* readdirSync(INDEXES_DIR) filtered to *.json
listFiles(dsk, dedup, tracking) ==
  LET names == SortedNames(DOMAIN dsk)
  IN [i \in DOMAIN names |-> ChunkName(names[i])]
       \o (IF dedup.exists THEN <<DedupName>> ELSE <<>>)
       \o (IF tracking.exists THEN <<TrackingName>> ELSE <<>>)

TrackingContent(tracking) ==
  [lastPageVisit |-> tracking.lastPageVisit, files |-> tracking.files]

readFile(name, dsk, dedup, tracking) ==
  CASE name.kind = "chunk" -> dsk[name.id]
    [] name.kind = "dedup" -> dedup.index
    [] name.kind = "tracking" -> TrackingContent(tracking)

\* a variant that takes a blob under the key for the file's content
RECURSIVE categorizeByExistence(_, _, _, _, _)
categorizeByExistence(files, store, dsk, dedup, tracking) ==
  IF files = <<>>
  THEN [newFiles |-> <<>>, modifiedFiles |-> <<>>, unchangedFiles |-> <<>>]
  ELSE LET filename == Head(files)
           rest == categorizeByExistence(Tail(files), store, dsk, dedup, tracking)
       IN IF filename \notin DOMAIN store
          THEN [rest EXCEPT !.newFiles = <<filename>> \o @]
          ELSE [rest EXCEPT !.unchangedFiles = <<filename>> \o @]

\* the categorisation loop: New, Modified, Unchanged
RECURSIVE categorize(_, _, _, _, _)
categorize(files, store, dsk, dedup, tracking) ==
  IF files = <<>>
  THEN [newFiles |-> <<>>, modifiedFiles |-> <<>>, unchangedFiles |-> <<>>]
  ELSE LET filename == Head(files)
           rest == categorize(Tail(files), store, dsk, dedup, tracking)
       IN IF filename \notin DOMAIN store
          THEN [rest EXCEPT !.newFiles = <<filename>> \o @]
          ELSE IF readFile(filename, dsk, dedup, tracking) # store[filename]
               THEN [rest EXCEPT !.modifiedFiles = <<filename>> \o @]
               ELSE [rest EXCEPT !.unchangedFiles = <<filename>> \o @]

\* a variant that returns early only when there is no file in any category
nothingToUploadWhenEmpty(plan) ==
  plan.newFiles = <<>> /\ plan.modifiedFiles = <<>> /\ plan.unchangedFiles = <<>>

nothingToUpload(plan) == plan.newFiles = <<>> /\ plan.modifiedFiles = <<>>

Chars == {"y", "Y", "e", "E", "s", "S", "n", " "}

Answers ==
  {<<>>} \cup {<<a>> : a \in Chars}
    \cup {<<a, b, c>> : a \in {"y", "Y"}, b \in {"e", "E"}, c \in {"s", "S"}}
    \cup {<<"y", " ">>, <<" ", "y">>, <<"y", "e">>, <<"n", "o">>,
          <<"y", "e", "s", " ">>, <<"y", "e", "s", "s">>}

toLowerCase(str) ==
  [i \in DOMAIN str |-> CASE str[i] = "Y" -> "y"
                          [] str[i] = "E" -> "e"
                          [] str[i] = "S" -> "s"
                          [] OTHER -> str[i]]

\* a variant that accepts whatever starts with a y
promptConfirmationByFirstLetter(text) ==
  text # <<>> /\ toLowerCase(text)[1] = "y"

promptConfirmation(text) ==
  toLowerCase(text) = <<"y">> \/ toLowerCase(text) = <<"y", "e", "s">>

\* a variant that uploads every local file
filesToUploadEverything(new, modified, unchanged) ==
  new \o modified \o unchanged

filesToUpload(new, modified, unchanged) == new \o modified

\* a chunk file whose text is not JSON: cut short, or overwritten by hand
Unparsable == ChunkFile("unparsable", <<>>)

RECURSIVE uploadedGames(_, _)
uploadedGames(chunkNames, dsk) ==
  IF chunkNames = <<>> THEN <<>>
  ELSE dsk[Head(chunkNames).id].games \o uploadedGames(Tail(chunkNames), dsk)

\* the source-tracking update that follows the upload loop
updateSourceTracking(uploaded, dsk, tracking, date) ==
  LET uploadedChunkFiles == SelectSeq(uploaded, LAMBDA u : u.kind = "chunk")
      gs == uploadedGames(uploadedChunkFiles, dsk)
      sourceFiles == {gs[i].sourceFile : i \in DOMAIN gs} \ {0}
      gameCount(f) == Cardinality({i \in DOMAIN gs : gs[i].sourceFile = f})
  IN IF uploadedChunkFiles = <<>>
     THEN tracking
     ELSE IF \E i \in DOMAIN uploadedChunkFiles :
               dsk[uploadedChunkFiles[i].id] = Unparsable
     THEN tracking     \* JSON.parse throws; the catch block warns and goes on
     ELSE [exists |-> TRUE,
           lastPageVisit |-> date,
           files |-> [f \in DOMAIN tracking.files \cup sourceFiles |->
                        IF f \in sourceFiles
                        THEN [gameCount |-> gameCount(f), uploadDate |-> date]
                        ELSE tracking.files[f]]]

UploadStarts ==
  /\ upPc = "idle"
  /\ bkPc = "idle"
  /\ uploadRuns < MaxUploads
  /\ uploadRuns' = uploadRuns + 1
  /\ now' = now + 1
  /\ uploads' = <<>>
  /\ setCalls' = <<>>
  /\ answer' = NoAnswer

\* no JSON file in data/indexes: exit(1)
UploadNoFiles ==
  /\ UploadStarts
  /\ listFiles(disk, dedupFile, trackingFile) = <<>>
  /\ outcome' = "nofiles"
  /\ UNCHANGED <<fileVars, runVars, gameVars, rebuilds, remote, upPc,
                 newFiles, modifiedFiles, unchangedFiles>>
  /\ UNCHANGED backupVars
  /\ UNCHANGED enrichVars
  /\ UNCHANGED restoreVars
  /\ UNCHANGED writeVars
  /\ UNCHANGED artifactVars
  /\ UNCHANGED fetchVars
  /\ UNCHANGED probeVars
  /\ UNCHANGED indexVars

\* every file is up to date: return
UploadNothingToUpload ==
  /\ UploadStarts
  /\ LET files == listFiles(disk, dedupFile, trackingFile)
         plan == categorize(files, remote, disk, dedupFile, trackingFile)
     IN /\ files # <<>>
        /\ nothingToUpload(plan)
        /\ newFiles' = plan.newFiles
        /\ modifiedFiles' = plan.modifiedFiles
        /\ unchangedFiles' = plan.unchangedFiles
  /\ outcome' = "uptodate"
  /\ UNCHANGED <<fileVars, runVars, gameVars, rebuilds, remote, upPc>>
  /\ UNCHANGED backupVars
  /\ UNCHANGED enrichVars
  /\ UNCHANGED restoreVars
  /\ UNCHANGED writeVars
  /\ UNCHANGED artifactVars
  /\ UNCHANGED fetchVars
  /\ UNCHANGED probeVars
  /\ UNCHANGED indexVars

\* the summary is shown and the prompt is put
UploadPlan ==
  /\ UploadStarts
  /\ LET files == listFiles(disk, dedupFile, trackingFile)
         plan == categorize(files, remote, disk, dedupFile, trackingFile)
     IN /\ files # <<>>
        /\ ~nothingToUpload(plan)
        /\ newFiles' = plan.newFiles
        /\ modifiedFiles' = plan.modifiedFiles
        /\ unchangedFiles' = plan.unchangedFiles
  /\ upPc' = "confirm"
  /\ UNCHANGED <<fileVars, runVars, gameVars, rebuilds, remote, outcome>>
  /\ UNCHANGED backupVars
  /\ UNCHANGED enrichVars
  /\ UNCHANGED restoreVars
  /\ UNCHANGED writeVars
  /\ UNCHANGED artifactVars
  /\ UNCHANGED fetchVars
  /\ UNCHANGED probeVars
  /\ UNCHANGED indexVars

\* not confirmed: exit(0)
UploadCancelled ==
  /\ upPc = "confirm"
  /\ \E text \in Answers :
       /\ ~promptConfirmation(text)
       /\ answer' = [given |-> TRUE, text |-> text]
  /\ upPc' = "idle"
  /\ outcome' = "cancelled"
  /\ UNCHANGED <<fileVars, now, runVars, gameVars, rebuilds, remote, newFiles,
                 modifiedFiles, unchangedFiles, uploads, setCalls, uploadRuns>>
  /\ UNCHANGED backupVars
  /\ UNCHANGED enrichVars
  /\ UNCHANGED restoreVars
  /\ UNCHANGED writeVars
  /\ UNCHANGED artifactVars
  /\ UNCHANGED fetchVars
  /\ UNCHANGED probeVars
  /\ UNCHANGED indexVars

UploadConfirmed ==
  /\ upPc = "confirm"
  /\ \E text \in Answers :
       /\ promptConfirmation(text)
       /\ answer' = [given |-> TRUE, text |-> text]
  /\ upPc' = "uploading"
  /\ UNCHANGED <<fileVars, now, runVars, gameVars, rebuilds, remote, newFiles,
                 modifiedFiles, unchangedFiles, uploads, setCalls, outcome,
                 uploadRuns>>
  /\ UNCHANGED backupVars
  /\ UNCHANGED enrichVars
  /\ UNCHANGED restoreVars
  /\ UNCHANGED writeVars
  /\ UNCHANGED artifactVars
  /\ UNCHANGED fetchVars
  /\ UNCHANGED probeVars
  /\ UNCHANGED indexVars

\* one iteration of the upload loop: store.set succeeds
UploadFile ==
  /\ upPc = "uploading"
  /\ LET queue == filesToUpload(newFiles, modifiedFiles, unchangedFiles)
     IN /\ Len(uploads) < Len(queue)
        /\ LET filename == queue[Len(uploads) + 1]
           IN /\ remote' = Put(remote, filename,
                               readFile(filename, disk, dedupFile, trackingFile))
              /\ uploads' = Append(uploads, filename)
              /\ setCalls' = Append(setCalls, filename)
  /\ UNCHANGED <<fileVars, now, runVars, gameVars, rebuilds, upPc, newFiles,
                 modifiedFiles, unchangedFiles, answer, outcome, uploadRuns>>
  /\ UNCHANGED backupVars
  /\ UNCHANGED enrichVars
  /\ UNCHANGED restoreVars
  /\ UNCHANGED writeVars
  /\ UNCHANGED artifactVars
  /\ UNCHANGED fetchVars
  /\ UNCHANGED probeVars
  /\ UNCHANGED indexVars

\* one iteration of the upload loop: store.set throws, exit(1)
UploadFileFails ==
  /\ upPc = "uploading"
  /\ LET queue == filesToUpload(newFiles, modifiedFiles, unchangedFiles)
     IN /\ Len(uploads) < Len(queue)
        /\ setCalls' = Append(setCalls, queue[Len(uploads) + 1])
  /\ upPc' = "idle"
  /\ outcome' = "failed"
  /\ UNCHANGED <<fileVars, now, runVars, gameVars, rebuilds, remote, newFiles,
                 modifiedFiles, unchangedFiles, uploads, answer, uploadRuns>>
  /\ UNCHANGED backupVars
  /\ UNCHANGED enrichVars
  /\ UNCHANGED restoreVars
  /\ UNCHANGED writeVars
  /\ UNCHANGED artifactVars
  /\ UNCHANGED fetchVars
  /\ UNCHANGED probeVars
  /\ UNCHANGED indexVars

\* after the loop: the source-tracking update, exit(0)
UploadComplete ==
  /\ upPc = "uploading"
  /\ Len(uploads) = Len(filesToUpload(newFiles, modifiedFiles, unchangedFiles))
  /\ trackingFile' = updateSourceTracking(uploads, disk, trackingFile, now)
  /\ upPc' = "idle"
  /\ outcome' = "complete"
  /\ UNCHANGED <<disk, dedupFile, now, runVars, gameVars, rebuilds, remote,
                 newFiles, modifiedFiles, unchangedFiles, uploads, answer,
                 setCalls, uploadRuns>>
  /\ UNCHANGED backupVars
  /\ UNCHANGED enrichVars
  /\ UNCHANGED restoreVars
  /\ UNCHANGED writeVars
  /\ UNCHANGED artifactVars
  /\ UNCHANGED fetchVars
  /\ UNCHANGED probeVars
  /\ UNCHANGED indexVars

Upload ==
  \/ UploadNoFiles
  \/ UploadNothingToUpload
  \/ UploadPlan
  \/ UploadCancelled
  \/ UploadConfirmed
  \/ UploadFile
  \/ UploadFileFails
  \/ UploadComplete

\* data/indexes as downloads and rebuilds leave it: full chunks and a last
\* one, the dedup index and the source tracking of the games' files
LocalGame(i, fromPgnmentor) ==
  enrichGame(GameMetadata(i, 2 * i + 1,
                          IF fromPgnmentor THEN 1 + (i % 2) ELSE 0))

LocalChunks(count, fromPgnmentor) ==
  [k \in 0..(count - 1) |->
     ChunkFile("full",
               [i \in 1..(IF k = count - 1 THEN 1 ELSE CHUNK_SIZE) |->
                  LocalGame(k * CHUNK_SIZE + i - 1, fromPgnmentor)])]

\* what an earlier state of a file looked like
OlderContent(name, dsk) ==
  CASE name.kind = "chunk" ->
         ChunkFile("full", [i \in DOMAIN dsk[name.id].games |->
                              [dsk[name.id].games[i] EXCEPT
                                 !.ecoJsonFen = Unset,
                                 !.ecoJsonOpening = Unset,
                                 !.ecoJsonEco = Unset,
                                 !.movesBack = Unset]])
    [] name.kind = "dedup" -> EmptyMap
    [] name.kind = "tracking" -> [lastPageVisit |-> NoTime, files |-> EmptyMap]

InitSync ==
  /\ IdleBackup
  /\ IdleRestore
  /\ IdleWrite
  /\ IdleArtifacts
  /\ IdleFetch
  /\ IdleProbe
  /\ IdleIndex
  /\ IdleEnrich
  /\ \E count \in 0..MaxLocalChunks, fromPgnmentor \in BOOLEAN :
       /\ count = 0 => fromPgnmentor
       /\ disk = LocalChunks(count, fromPgnmentor)
       /\ dedupFile = IF count = 0 THEN NoDedup
                      ELSE [exists |-> TRUE,
                            index |-> ScanDedup(AllGames(disk), EmptyMap)]
       /\ trackingFile =
            IF count = 0 THEN NoTracking
            ELSE LET gs == AllGames(disk)
                     sourceFiles == {gs[i].sourceFile : i \in DOMAIN gs} \ {0}
                 IN [exists |-> TRUE, lastPageVisit |-> 0,
                     files |-> [f \in sourceFiles |->
                                  TrackingEntry(Cardinality(
                                    {i \in DOMAIN gs : gs[i].sourceFile = f}))]]
  /\ \E held \in [Range(listFiles(disk, dedupFile, trackingFile))
                    -> {"absent", "same", "older"}],
        orphan \in BOOLEAN :
       remote = [name \in {n \in DOMAIN held : held[n] # "absent"}
                          \cup (IF orphan THEN {OrphanName} ELSE {}) |->
                   IF name = OrphanName THEN EmptyMap
                   ELSE IF held[name] = "same"
                        THEN readFile(name, disk, dedupFile, trackingFile)
                        ELSE OlderContent(name, disk)]
  /\ IdleSync
  /\ now = 1
  /\ IdleRun
  /\ lastWrites = {}
  /\ runs = 0
  /\ rebuilds = 0

SpecSync == InitSync /\ [][Upload]_vars

IsYes(text) ==
  text \in {<<a>> : a \in {"y", "Y"}}
             \cup {<<a, b, c>> : a \in {"y", "Y"}, b \in {"e", "E"},
                                 c \in {"s", "S"}}

\* C11: an upload run that finds every local file in the blob store with
\* equal content reports that nothing is to upload and ends: no prompt, no
\* write to the blob store, source-tracking.json as it was.
C11_NothingToUploadEnds ==
  [][LET files == Range(listFiles(disk, dedupFile, trackingFile))
     IN (/\ upPc = "idle"
         /\ uploadRuns' = uploadRuns + 1
         /\ files # {}
         /\ \A f \in files :
              /\ f \in DOMAIN remote
              /\ remote[f] = readFile(f, disk, dedupFile, trackingFile))
          => /\ outcome' = "uptodate"
             /\ upPc' = "idle"
             /\ answer' = NoAnswer
             /\ setCalls' = <<>>
             /\ uploads' = <<>>
             /\ remote' = remote
             /\ trackingFile' = trackingFile]_vars

\* a run that found every file up to date, beside a key without a local file
C11_Witness ==
  /\ outcome = "uptodate"
  /\ upPc = "idle"
  /\ Len(unchangedFiles) > 1
  /\ OrphanName \in DOMAIN remote
  /\ answer = NoAnswer

\* C12: the plan puts every local file in exactly one category: New iff no
\* blob has its key, else Modified iff the blob's content differs from the
\* file's, else Unchanged.
C12_CategoriesByContent ==
  [][(upPc = "idle" /\ uploadRuns' = uploadRuns + 1)
       => LET files == Range(listFiles(disk, dedupFile, trackingFile))
              content(f) == readFile(f, disk, dedupFile, trackingFile)
          IN /\ files # {} =>
                  /\ Range(newFiles') = {f \in files : f \notin DOMAIN remote}
                  /\ Range(modifiedFiles') =
                       {f \in files : f \in DOMAIN remote /\ remote[f] # content(f)}
                  /\ Range(unchangedFiles') =
                       {f \in files : f \in DOMAIN remote /\ remote[f] = content(f)}
                  /\ Len(newFiles') + Len(modifiedFiles') + Len(unchangedFiles')
                       = Cardinality(files)]_vars

\* a plan with a New, a Modified and an Unchanged file
C12_Witness ==
  /\ upPc = "confirm"
  /\ newFiles # <<>>
  /\ modifiedFiles # <<>>
  /\ unchangedFiles # <<>>

\* C8: an upload run that follows a confirmed, completed upload with nothing
\* changed in between classifies every local file Unchanged and uploads
\* nothing.
C8_ReuploadUnchanged ==
  [][(upPc = "idle" /\ outcome = "complete" /\ uploadRuns' = uploadRuns + 1)
       => /\ newFiles' = <<>>
          /\ modifiedFiles' = <<>>
          /\ outcome' = "uptodate"]_vars

\* C9: a confirmed upload calls store.set only with keys classified New or
\* Modified; keys classified Unchanged and keys without a local file are
\* neither written nor deleted.
C9_OnlyNewAndModifiedSet ==
  [][LET planned == Range(newFiles') \cup Range(modifiedFiles')
         untouched == Range(unchangedFiles')
                        \cup (DOMAIN remote
                                \ Range(listFiles(disk, dedupFile, trackingFile)))
     IN /\ Range(setCalls') \subseteq planned
        /\ Range(setCalls') \cap untouched = {}
        /\ DOMAIN remote \subseteq DOMAIN remote'
        /\ \A k \in DOMAIN remote' :
             (k \notin DOMAIN remote \/ remote'[k] # remote[k]) => k \in planned
        /\ \A k \in untouched : k \in DOMAIN remote' /\ remote'[k] = remote[k]]_vars

\* a completed upload that sent a New and a Modified file past an Unchanged
\* one and a key without a local file
C9_Witness ==
  /\ outcome = "complete"
  /\ upPc = "idle"
  /\ newFiles # <<>>
  /\ modifiedFiles # <<>>
  /\ unchangedFiles # <<>>
  /\ OrphanName \in DOMAIN remote
  /\ Len(uploads) = Len(newFiles) + Len(modifiedFiles)

\* C10: nothing is written to the blob store unless the answer is y or yes
\* in any letter case; any other answer ends the run with no upload, the
\* blob store and source-tracking.json as they were.
C10_NoWriteWithoutYes ==
  [][~(answer'.given /\ IsYes(answer'.text))
       => /\ remote' = remote
          /\ trackingFile' = trackingFile
          /\ uploads' = <<>>
          /\ setCalls' = <<>>
          /\ (upPc = "confirm" => upPc' = "idle" /\ outcome' = "cancelled")]_vars

\* the prompt answered by the return key alone: the run is cancelled
C10_Witness ==
  /\ outcome = "cancelled"
  /\ upPc = "idle"
  /\ answer = [given |-> TRUE, text |-> <<>>]
  /\ newFiles # <<>>
  /\ uploads = <<>>

(***************************************************************************)
(* backupFromBlobs.  The snapshot directory is named by the time the run   *)
(* starts; a blob is fetched and written per step of the loop.             *)
(***************************************************************************)
MaxBackups == 1       \* backup runs per behaviour

\* store.list({ prefix: "indexes/" }): the keys in the order of their names
blobListing(store) ==
  LET names == SortedNames({k.id : k \in {b \in DOMAIN store : b.kind = "chunk"}})
  IN [i \in DOMAIN names |-> ChunkName(names[i])]
       \o (IF DedupName \in DOMAIN store THEN <<DedupName>> ELSE <<>>)
       \o (IF OrphanName \in DOMAIN store THEN <<OrphanName>> ELSE <<>>)
       \o (IF TrackingName \in DOMAIN store THEN <<TrackingName>> ELSE <<>>)

BackupStarts ==
  /\ bkPc = "idle"
  /\ upPc = "idle"
  /\ pc = "idle"
  /\ backupRuns < MaxBackups
  /\ backupRuns' = backupRuns + 1
  /\ now' = now + 1
  /\ bkAttempted' = 0
  /\ bkDownloads' = <<>>
  /\ bkBlobs' = blobListing(remote)

\* no blob under the prefix: exit(1)
BackupEmptyListing ==
  /\ BackupStarts
  /\ blobListing(remote) = <<>>
  /\ bkOutcome' = "failed"
  /\ UNCHANGED <<fileVars, runVars, gameVars, rebuilds, syncVars, enrichVars, restoreVars, writeVars, artifactVars,
                 fetchVars, probeVars, indexVars, bkPc, backups,
                 backedUp>>

BackupBegin ==
  /\ BackupStarts
  /\ blobListing(remote) # <<>>
  /\ bkPc' = "blobs"
  /\ UNCHANGED <<fileVars, runVars, gameVars, rebuilds, syncVars, enrichVars, restoreVars, writeVars, artifactVars,
                 fetchVars, probeVars, indexVars, bkOutcome,
                 backups, backedUp>>

\* one iteration: the content is fetched and written under the snapshot
BackupBlobSaved ==
  /\ bkPc = "blobs"
  /\ bkAttempted < Len(bkBlobs)
  /\ LET key == bkBlobs[bkAttempted + 1]
         dir == IF now \in DOMAIN backups THEN backups[now] ELSE EmptyMap
     IN /\ key \in DOMAIN remote
        /\ backups' = Put(backups, now, Put(dir, key, remote[key]))
        /\ bkDownloads' = Append(bkDownloads, key)
  /\ bkAttempted' = bkAttempted + 1
  /\ UNCHANGED <<fileVars, now, runVars, gameVars, rebuilds, syncVars, enrichVars, restoreVars, writeVars, artifactVars,
                 fetchVars, probeVars, indexVars, bkPc,
                 bkBlobs, bkOutcome, backupRuns, backedUp>>

\* one iteration: store.get gives no content (the blob is skipped) or
\* throws (the error is logged); the loop goes on
BackupBlobSkipped ==
  /\ bkPc = "blobs"
  /\ bkAttempted < Len(bkBlobs)
  /\ bkAttempted' = bkAttempted + 1
  /\ UNCHANGED <<fileVars, now, runVars, gameVars, rebuilds, syncVars, enrichVars, restoreVars, writeVars, artifactVars,
                 fetchVars, probeVars, indexVars, bkPc,
                 bkBlobs, bkDownloads, bkOutcome, backups, backupRuns,
                 backedUp>>

\* a variant that is content with one blob saved
backupSucceededWithAny(downloads, blobs) == Len(downloads) > 0

backupSucceeded(downloads, blobs) == ~(Len(downloads) < Len(blobs))

\* the summary: exit(1) if a blob is missing from the snapshot
BackupFinish ==
  /\ bkPc = "blobs"
  /\ bkAttempted = Len(bkBlobs)
  /\ bkOutcome' = IF backupSucceeded(bkDownloads, bkBlobs)
                  THEN "complete" ELSE "failed"
  /\ backedUp' = (backedUp \/ backupSucceeded(bkDownloads, bkBlobs))
  /\ bkPc' = "idle"
  /\ UNCHANGED <<fileVars, now, runVars, gameVars, rebuilds, syncVars, enrichVars, restoreVars, writeVars, artifactVars,
                 fetchVars, probeVars, indexVars, bkBlobs,
                 bkAttempted, bkDownloads, backups, backupRuns>>

Backup ==
  \/ BackupEmptyListing
  \/ BackupBegin
  \/ BackupBlobSaved
  \/ BackupBlobSkipped
  \/ BackupFinish

\* a blob store that earlier uploads left, seen from a fresh working copy
RemoteKeys ==
  {ChunkName(k) : k \in 0..(MaxLocalChunks - 1)}
    \cup {DedupName, TrackingName, OrphanName}

RemoteContent(name) ==
  CASE name.kind = "chunk" -> LocalChunks(MaxLocalChunks, TRUE)[name.id]
    [] name.kind = "dedup" ->
         ScanDedup(AllGames(LocalChunks(MaxLocalChunks, TRUE)), EmptyMap)
    [] name.kind = "tracking" -> [lastPageVisit |-> 0, files |-> EmptyMap]
    [] name.kind = "orphan" -> EmptyMap

InitBackup ==
  /\ \E held \in SUBSET RemoteKeys : remote = [name \in held |-> RemoteContent(name)]
  /\ IdleSync
  /\ IdleBackup
  /\ IdleRestore
  /\ IdleWrite
  /\ IdleArtifacts
  /\ IdleFetch
  /\ IdleProbe
  /\ IdleIndex
  /\ IdleEnrich
  /\ disk = EmptyMap
  /\ dedupFile = NoDedup
  /\ trackingFile = NoTracking
  /\ now = 1
  /\ IdleRun
  /\ lastWrites = {}
  /\ runs = 0
  /\ rebuilds = 0

SpecBackup == InitBackup /\ [][Backup]_vars

\* one working session: the scripts of the rebuild, backup and upload stages,
\* started one at a time from the command line or by the workflow server
InitSession ==
  /\ InitSync
  /\ DOMAIN disk \subseteq {0}
  /\ OrphanName \notin DOMAIN remote

Session == BuildIndexes \/ Backup \/ Upload

SpecSession == InitSession /\ [][Session]_vars

\* C13: a rebuild or an upload starts only after a backup of the blob store
\* has completed in the session.
C13_StagesInOrder ==
  [][(rebuilds' = rebuilds + 1 \/ uploadRuns' = uploadRuns + 1) => backedUp]_vars

\* C14: a backup run ends successfully only if every listed blob was
\* written to the snapshot directory of the run; with an empty listing, or a
\* blob without content or failing to download, it ends with a failure -
\* after the loop has handled every blob of the listing.
C14_BackupCompleteOrFailed ==
  (bkPc = "idle" /\ backupRuns > 0) =>
    LET listed == Range(blobListing(remote))
        saved == IF now \in DOMAIN backups
                 THEN {k \in DOMAIN backups[now] : backups[now][k] = remote[k]}
                 ELSE {}
    IN /\ bkOutcome \in {"complete", "failed"}
       /\ bkOutcome = "complete" <=> (listed # {} /\ listed \subseteq saved)
       /\ listed # {} => bkAttempted = Cardinality(listed)

\* a failed run that still saved the blobs after the one it could not get
C14_Witness ==
  /\ bkPc = "idle"
  /\ bkOutcome = "failed"
  /\ Len(bkBlobs) > 2
  /\ bkAttempted = Len(bkBlobs)
  /\ Len(bkDownloads) = Len(bkBlobs) - 1
  /\ bkBlobs[1] \notin Range(bkDownloads)

(***************************************************************************)
(* Properties of the chunk store.                                          *)
(***************************************************************************)
\* a closed chunk: not the highest-numbered one, or already full
Closed(dsk, k) ==
  /\ k \in DOMAIN dsk
  /\ k # MaxChunkId(dsk) \/ Len(dsk[k].games) >= CHUNK_SIZE

IdsOf(file) == {file.games[i].idx : i \in DOMAIN file.games}

Persisted(g) ==
  \E k \in DOMAIN disk : \E i \in DOMAIN disk[k].games :
    /\ disk[k].games[i].idx = g.idx
    /\ disk[k].games[i].hash = g.hash

\* C1: chunk monotonicity - a chunk file that is closed keeps exactly the
\* same set of record ids through every later save.
C1_ChunkMonotonicity ==
  [][\A k \in DOMAIN disk :
       Closed(disk, k) =>
         /\ k \in DOMAIN disk'
         /\ IdsOf(disk'[k]) = IdsOf(disk[k])]_vars

\* C2: dedup totality - after completed download runs and rebuilds the
\* persisted dedup index equals the index rebuilt by scanning all chunks.
C2_DedupTotality ==
  (pc = "idle" /\ dedupFile.exists) =>
    dedupFile.index = loadExistingChunksData(disk).deduplicationIndex

\* C5: capacity bound - every chunk file other than the highest-numbered
\* one holds at most CHUNK_SIZE records.
C5_CapacityBound ==
  \A k \in DOMAIN disk :
    k # MaxChunkId(disk) => Len(disk[k].games) <= CHUNK_SIZE

\* C6: an admission save writes no file of a closed chunk: it writes only
\* the open tail chunk and new chunks with the next sequential ids.
C6_SaveWritesOnlyOpenTail ==
  [][pc = "files" =>
       \A k \in lastWrites' :
         /\ ~Closed(disk, k)
         /\ k \notin DOMAIN disk =>
              /\ DOMAIN disk # {} => k > MaxChunkId(disk)
              /\ \A j \in 0..(k - 1) : j \in DOMAIN disk']_vars

FilePosition(f) == CHOOSE i \in DOMAIN limitedFiles : limitedFiles[i] = f

\* C7: checkpoint bound - at every point of a download run, the records
\* accepted from all but the last CHECKPOINT_FILES files handled so far are
\* in the chunk files, the dedup index file and the source tracking file.
C7_CheckpointBound ==
  pc = "files" =>
    \A i \in DOMAIN acceptedThisRun :
      LET g == acceptedThisRun[i]
      IN FilePosition(g.sourceFile) <= fileIdx - CHECKPOINT_FILES =>
           /\ Persisted(g)
           /\ dedupFile.exists
           /\ g.hash \in DOMAIN dedupFile.index
           /\ g.sourceFile \in DOMAIN trackingFile.files

\* C21: chunk-id formula - after download runs that started on an empty
\* store (no rebuild, no legacy import), every game stored in chunk-k.json
\* has floor(idx / CHUNK_SIZE) = k.
C21_ChunkIdFormula ==
  rebuilds = 0 =>
    \A k \in DOMAIN disk : \A i \in DOMAIN disk[k].games :
      disk[k].games[i].idx \div CHUNK_SIZE = k

\* C22: the skip of unchanged chunks is invisible - after a rebuild of a
\* store that has chunk files, every chunk file holds the games of that
\* chunk as the rebuild has them in memory after enrichment, field by field:
\* what a rebuild that rewrote every chunk file would leave.
C22_SkipInvisible ==
  [][(rebuilds' = rebuilds + 1 /\ DOMAIN disk # {})
       => /\ DOMAIN disk' = DOMAIN disk
          /\ \A k \in DOMAIN disk :
               disk'[k].games = enrichGamesWithEcoJson(disk[k].games)]_vars

PersistedIn(dsk, g) ==
  \E k \in DOMAIN dsk : \E i \in DOMAIN dsk[k].games :
    /\ dsk[k].games[i].idx = g.idx
    /\ dsk[k].games[i].hash = g.hash

\* C26: a file that fails does not abort the download run - the run ends
\* only after every file of its list has been handled, and when it ends
\* every game it accepted from the other files is in the chunk files.
C26_FailureIsolated ==
  [][(pc = "files" /\ pc' = "idle")
       => /\ fileIdx = Len(limitedFiles)
          /\ \A i \in DOMAIN acceptedThisRun :
               PersistedIn(disk', acceptedThisRun[i])]_vars

(***************************************************************************)
(* The requests of a download run, one step for every await: the HEAD      *)
(* request for files.html, the discovery with its metadata checks, the     *)
(* download of each file and the pause after it.  A request is answered    *)
(* by the server or fails in the network; nothing in the run gives up on   *)
(* a request that gets no answer.  DOWNLOAD_DIR keeps the archives that    *)
(* earlier runs have written.                                              *)
(***************************************************************************)
MaxFetchFiles == 2    \* files one run goes through

FetchPgns == {<<[kind |-> "ok", hash |-> k]>> : k \in Keys}
NoPgnEntry == <<>>    \* an archive that holds no .pgn entry

\* what the request for an archive comes to: the archive, or an HTTP error
\* status or a network error
Responses ==
  [ok : {TRUE}, body : FetchPgns \cup {NoPgnEntry}]
    \cup {[ok |-> FALSE, body |-> NoPgnEntry]}

\* ms a download with its extraction and processing can take
Durations == {100, 3000}

\* what it returned, and DOWNLOAD_DIR after it
downloadFile(zs, filename, response) ==
  IF response.ok
  THEN [result |-> TRUE, dir |-> Put(zs, filename, response.body)]
  ELSE [result |-> FALSE, dir |-> zs]

\* the text of the PGN entry of the archive at zipPath; <<>> stands for null
extractZip(zs, filename) ==
  IF filename \in DOMAIN zs THEN zs[filename] ELSE NoPgnEntry

StaleZips ==
  {[f \in S |-> <<[kind |-> "ok", hash |-> 1]>>] : S \in SUBSET (1..MaxFetchFiles)}

InitFetch ==
  /\ IdleBackup
  /\ IdleRestore
  /\ IdleWrite
  /\ IdleArtifacts
  /\ IdleProbe
  /\ IdleIndex
  /\ IdleEnrich
  /\ remote = EmptyMap
  /\ IdleSync
  /\ disk \in {EmptyMap, Stored({0})}
  /\ dedupFile = IF DOMAIN disk = {} THEN NoDedup
                 ELSE [exists |-> TRUE,
                       index |-> loadExistingChunksData(disk).deduplicationIndex]
  /\ trackingFile \in
       {NoTracking, TrackingWritten([lastPageVisit |-> 0, files |-> EmptyMap])}
  /\ zips \in StaleZips
  /\ dlFailed = {}
  /\ gap = NoGap
  /\ now = 0
  /\ IdleRun
  /\ lastWrites = {}
  /\ runs = 0
  /\ rebuilds = 0

fetchFrame ==
  <<gameVars, rebuilds, syncVars, backupVars, enrichVars, restoreVars, writeVars, artifactVars, probeVars, indexVars>>

\* the run loads the source tracking and sends the HEAD request for the page
FetchStart ==
  /\ pc = "idle"
  /\ runs = 0
  /\ sourceTracking' = LoadedTracking
  /\ now' = now + 1
  /\ visitDate' = now'
  /\ runs' = runs + 1
  /\ pc' = "page"
  /\ UNCHANGED <<fileVars, limitedFiles, fileIdx, deduplicationIndex, lastChunk,
                 nextGameId, allNewGames, acceptedThisRun, lastWrites>>
  /\ UNCHANGED fetchVars
  /\ UNCHANGED fetchFrame

\* the HEAD request for files.html settles: the page is unchanged and the
\* run returns, or the run goes on to the discovery, or the request is
\* rejected, which nothing catches
PageResponds ==
  /\ pc = "page"
  /\ \E answered \in {"unchanged", "modified", "rejected"} :
       /\ answered = "unchanged" => sourceTracking.lastPageVisit # NoTime
       /\ pc' = CASE answered = "unchanged" -> "done"
                  [] answered = "modified" -> "discover"
                  [] OTHER -> "aborted"
  /\ UNCHANGED <<fileVars, now, visitDate, limitedFiles, fileIdx,
                 deduplicationIndex, lastChunk, nextGameId, allNewGames,
                 sourceTracking, acceptedThisRun, lastWrites, runs>>
  /\ UNCHANGED fetchVars
  /\ UNCHANGED fetchFrame

\* discoverPlayerFiles and the metadata checks settle: count files are to
\* be processed, or the request for the page is rejected, which nothing
\* catches.  With files to process the chunks are loaded and the first
\* download starts
Discovered ==
  /\ pc = "discover"
  /\ \/ /\ pc' = "aborted"
        /\ UNCHANGED <<fileVars, limitedFiles, deduplicationIndex, lastChunk,
                       nextGameId, sourceTracking>>
     \/ /\ pc' = "done"
        /\ sourceTracking' = [sourceTracking EXCEPT !.lastPageVisit = visitDate]
        /\ trackingFile' = TrackingWritten(sourceTracking')
        /\ UNCHANGED <<disk, dedupFile, limitedFiles, deduplicationIndex,
                       lastChunk, nextGameId>>
     \/ /\ \E fileCount \in 1..MaxFetchFiles :
             limitedFiles' = [i \in 1..fileCount |-> i]
        /\ LET loaded == loadExistingChunksData(disk)
           IN /\ deduplicationIndex' = loaded.deduplicationIndex
              /\ lastChunk' = loaded.lastChunk
              /\ nextGameId' = loaded.maxGameId + 1
        /\ pc' = "download"
        /\ UNCHANGED <<fileVars, sourceTracking>>
  /\ UNCHANGED <<now, visitDate, fileIdx, allNewGames, acceptedThisRun,
                 lastWrites, runs>>
  /\ UNCHANGED fetchVars
  /\ UNCHANGED fetchFrame

\* downloadFile settles, its result is dropped, and the archive that is at
\* zipPath now is extracted.  Without PGN text the iteration ends at once
\* and the next download starts; with it the file is processed and the
\* pause begins
DownloadReturns ==
  /\ pc = "download"
  /\ \E response \in Responses, took \in Durations :
       LET filename == limitedFiles[fileIdx + 1]
           download == downloadFile(zips, filename, response)
           pgnContent == extractZip(download.dir, filename)
           isLast == fileIdx + 1 = Len(limitedFiles)
       IN /\ zips' = download.dir
          /\ dlFailed' = IF download.result THEN dlFailed
                         ELSE dlFailed \cup {filename}
          /\ IF pgnContent = NoPgnEntry
             THEN /\ pc' = IF isLast THEN "finish" ELSE "download"
                  /\ lastWrites' = {}
                  /\ UNCHANGED <<fileVars, deduplicationIndex, nextGameId,
                                 allNewGames, sourceTracking, acceptedThisRun>>
             ELSE /\ processFile(pgnContent)
                  /\ pc' = IF isLast THEN "finish" ELSE "throttle"
          /\ gap' = took
  /\ fileIdx' = fileIdx + 1
  /\ UNCHANGED <<now, visitDate, limitedFiles, lastChunk, runs>>
  /\ UNCHANGED fetchFrame

\* the timer of the pause fires and the next download starts
ThrottleElapses ==
  /\ pc = "throttle"
  /\ gap' = gap + THROTTLE_MS
  /\ pc' = "download"
  /\ UNCHANGED <<fileVars, now, visitDate, limitedFiles, fileIdx,
                 deduplicationIndex, lastChunk, nextGameId, allNewGames,
                 sourceTracking, acceptedThisRun, lastWrites, runs>>
  /\ UNCHANGED <<zips, dlFailed>>
  /\ UNCHANGED fetchFrame

\* after the loop: the final saves and the final summary
FetchFinish ==
  /\ pc = "finish"
  /\ LET saved == saveGamesToChunks(allNewGames, disk, lastChunk)
     IN /\ disk' = saved.dsk
        /\ lastWrites' = saved.written
  /\ dedupFile' = [exists |-> TRUE, index |-> deduplicationIndex]
  /\ sourceTracking' = [sourceTracking EXCEPT !.lastPageVisit = visitDate]
  /\ trackingFile' = TrackingWritten(sourceTracking')
  /\ allNewGames' = <<>>
  /\ pc' = "done"
  /\ UNCHANGED <<now, visitDate, limitedFiles, fileIdx, deduplicationIndex,
                 lastChunk, nextGameId, acceptedThisRun, runs>>
  /\ UNCHANGED fetchVars
  /\ UNCHANGED fetchFrame

Fetch ==
  \/ FetchStart
  \/ PageResponds
  \/ Discovered
  \/ DownloadReturns
  \/ ThrottleElapses
  \/ FetchFinish

SpecFetch == InitFetch /\ [][Fetch]_vars

\* C27: a file whose download fails is abandoned: the step in which
\* downloadFile returns false admits no game, consumes no id, adds no
\* deduplication entry and records no source-tracking entry
C27_FailedDownloadAbandoned ==
  [][(pc = "download" /\ dlFailed' # dlFailed)
       => /\ acceptedThisRun' = acceptedThisRun
          /\ nextGameId' = nextGameId
          /\ deduplicationIndex' = deduplicationIndex
          /\ sourceTracking'.files = sourceTracking.files]_vars

\* C28: downloads are throttled: when a download after the first one of a
\* run starts, at least THROTTLE_MS ms have passed since the start of the
\* download before it, whatever came of that one
C28_ThrottleBetweenDownloads ==
  (pc = "download" /\ fileIdx >= 1) => gap >= THROTTLE_MS

\* The run under the scheduling the code has: a timer that was set fires
\* and the statements after the loop run.  Whether a request is ever
\* settled is up to the server and the network
SpecFetchLive ==
  SpecFetch /\ WF_vars(ThrottleElapses) /\ WF_vars(FetchFinish)

\* C29: a download run always terminates: once it has sent its first
\* request it reaches its end, whether or not its requests get a response
C29_RunTerminates == (pc = "page") ~> (pc = "done")

\* C30: a download run leaves source-tracking.json unchanged: no step of
\* the run, from its start to its final saves, changes the tracked files
\* or lastPageVisit of the file
C30_DownloadLeavesTracking ==
  [][(pc = "files" \/ runs' # runs) => trackingFile' = trackingFile]_vars

\* C31: after a download run, every discovered file that source tracking
\* does not record is selected by the next run, whatever the page and the
\* metadata check answer: the page counts as modified and classification
\* puts the file up for processing
C31_UnrecordedSelectedAgain ==
  (pc = "idle" /\ runs >= 1) =>
    \A f \in Files \ DOMAIN trackingFile.files :
      \A pageLastModified \in Times \cup {NoTime}, probe \in ProbeResults :
        /\ PageModified(pageLastModified)
        /\ classify(<<f>>, batchCheckFileMetadata(<<f>>, [g \in {f} |-> probe]),
                    trackingFile.lastPageVisit) = <<f>>

\* C35: no accepted record is lost: when a download run ends, every game
\* it accepted is in exactly one chunk file, however many checkpoint saves
\* the run has made
C35_NoAcceptedRecordLost ==
  [][(pc = "files" /\ pc' = "idle")
       => \A i \in DOMAIN acceptedThisRun :
            Cardinality({k \in DOMAIN disk' :
                           \E j \in DOMAIN disk'[k].games :
                             disk'[k].games[j].hash = acceptedThisRun[i].hash}) = 1]_vars

(***************************************************************************)
(* rechunkByHash and buildIndexes on a store as it is found: left by       *)
(* download runs, grown to chunk ids of two digits, or left by an earlier  *)
(* version of the tool, with the same hash stored more than once and the   *)
(* chunk files in any state of fill.                                       *)
(***************************************************************************)
MaxRepairGames == 3   \* games in a store left by an earlier version
MaxRepairHashes == 3  \* distinct hashes among them

\* a variant that leaves every old chunk file in place
rechunkKeepingOld(dsk) ==
  LET loaded == loadChunks(dsk, <<>>)
      deduped == sortByHash(dedupeByHash(concatGames(loaded), {}))
      newChunks == reslice(deduped)
  IN [dsk |-> [k \in DOMAIN dsk \cup {newChunks[i].chunkId : i \in DOMAIN newChunks}
                 |-> IF k < Len(newChunks)
                     THEN ChunkFile("full", newChunks[k + 1].games)
                     ELSE dsk[k]],
      master |-> [exists |-> TRUE,
                  totalGames |-> Len(deduped),
                  totalChunks |-> Len(newChunks),
                  chunks |-> [i \in DOMAIN newChunks |->
                                [id |-> newChunks[i].chunkId,
                                 startIdx |-> newChunks[i].startIdx,
                                 endIdx |-> newChunks[i].endIdx]]]]

\* rechunk on a store with chunk files: the chunk files and
\* master-index.json it leaves
rechunk(dsk) ==
  LET loaded == loadChunks(dsk, <<>>)
      deduped == sortByHash(dedupeByHash(concatGames(loaded), {}))
      newChunks == reslice(deduped)
      totalChunks == Len(newChunks)
      kept == {k \in DOMAIN dsk : ~(k >= totalChunks)}
  IN [dsk |-> [k \in kept \cup {newChunks[i].chunkId : i \in DOMAIN newChunks}
                 |-> ChunkFile("full", newChunks[k + 1].games)],
      master |-> [exists |-> TRUE,
                  totalGames |-> Len(deduped),
                  totalChunks |-> totalChunks,
                  chunks |-> [i \in DOMAIN newChunks |->
                                [id |-> newChunks[i].chunkId,
                                 startIdx |-> newChunks[i].startIdx,
                                 endIdx |-> newChunks[i].endIdx]]]]

\* the repair script from start to end; without chunk files it exits at once
Rechunk ==
  /\ pc = "idle"
  /\ upPc = "idle"
  /\ bkPc = "idle"
  /\ lastOp # "rechunk"
  /\ IF DOMAIN disk = {}
     THEN UNCHANGED <<disk, masterFile>>
     ELSE /\ disk' = rechunk(disk).dsk
          /\ masterFile' = rechunk(disk).master
  /\ lastOp' = "rechunk"
  /\ UNCHANGED <<dedupFile, trackingFile, now, runVars, gameVars, rebuilds,
                 gameToChunkFile>>
  /\ UNCHANGED syncVars
  /\ UNCHANGED backupVars
  /\ UNCHANGED enrichVars
  /\ UNCHANGED restoreVars
  /\ UNCHANGED writeVars
  /\ UNCHANGED fetchVars
  /\ UNCHANGED probeVars
  /\ UNCHANGED indexVars

\* a store of an earlier version: games of any hashes, saved in one go
OlderStores ==
  UNION {{saveGamesToChunks([i \in 1..n |-> GameMetadata(i - 1, hashes[i], 1)],
                            EmptyMap, NoChunk).dsk :
            hashes \in [1..n -> 1..MaxRepairHashes]} : n \in 1..MaxRepairGames}

\* a store that has grown to chunk-10.json
TwoDigitStore == Stored(0..(10 * CHUNK_SIZE))

\* a store whose last chunk files no longer hold a game
DrainedStores ==
  {[k \in DOMAIN dsk \cup {Cardinality(DOMAIN dsk)} |->
      IF k \in DOMAIN dsk THEN dsk[k] ELSE ChunkFile("full", <<>>)] :
     dsk \in {Stored(S) : S \in SUBSET (0..MaxStored)}}

RepairStores ==
  IdStores \cup OlderStores \cup DrainedStores \cup {TwoDigitStore}

\* the state an earlier buildIndexes or none has left
InitRepair ==
  /\ IdleBackup
  /\ IdleRestore
  /\ IdleWrite
  /\ IdleFetch
  /\ IdleProbe
  /\ IdleIndex
  /\ IdleEnrich
  /\ remote = EmptyMap
  /\ IdleSync
  /\ disk \in RepairStores
  /\ dedupFile = IF DOMAIN disk = {} THEN NoDedup
                 ELSE [exists |-> TRUE,
                       index |-> loadExistingChunksData(disk).deduplicationIndex]
  /\ trackingFile = NoTracking
  /\ masterFile = NoMaster
  /\ gameToChunkFile = NoGameToChunk
  /\ lastOp = "none"
  /\ now = 0
  /\ IdleRun
  /\ lastWrites = {}
  /\ runs = 0
  /\ rebuilds = 0

Repair == Rechunk \/ BuildIndexes

SpecRepair == InitRepair /\ [][Repair]_vars

\* C32: after the repair has completed, game-to-chunk.json agrees with the
\* new chunk files: it maps the idx of every game of chunk k to k
C32_RepairRegeneratesIndex ==
  lastOp = "rechunk" =>
    \A k \in DOMAIN disk : \A i \in DOMAIN disk[k].games :
      /\ gameToChunkFile.exists
      /\ disk[k].games[i].idx \in DOMAIN gameToChunkFile.index
      /\ gameToChunkFile.index[disk[k].games[i].idx] = k

C37_GameToChunkExact ==
  lastOp = "build" =>
    /\ gameToChunkFile.exists
    /\ DOMAIN gameToChunkFile.index = {g.idx : g \in Records(disk)}
    /\ \A k \in DOMAIN disk : \A i \in DOMAIN disk[k].games :
         gameToChunkFile.index[disk[k].games[i].idx] = k

\* buildIndexes has run on the store in which a download run saved twice
\* onto the chunk it had loaded: a game is in a chunk other than
\* idx \div CHUNK_SIZE and the index has that chunk for it
C37_Witness ==
  /\ lastOp = "build"
  /\ Cardinality(DOMAIN disk) >= 2
  /\ \A k \in DOMAIN disk : disk[k].games # <<>>
  /\ \E k \in DOMAIN disk : \E i \in DOMAIN disk[k].games :
       /\ disk[k].games[i].sourceFile # 0
       /\ disk[k].games[i].idx \div CHUNK_SIZE # k
       /\ gameToChunkFile.index[disk[k].games[i].idx] = k

\* C38: after the repair the chunk files are chunk-0 to chunk-(n-1) and no
\* other, every chunk but the last holds CHUNK_SIZE games, the games are in
\* ascending order of hash over the whole sequence of chunks, no hash is
\* stored twice, and the hashes in the store are those that were in it
\* before the repair
C38_RepairedStore ==
  [][(lastOp' = "rechunk" /\ DOMAIN disk # {})
       => LET n == Cardinality(DOMAIN disk')
          IN /\ DOMAIN disk' = 0..(n - 1)
             /\ \A k \in 0..(n - 2) : Len(disk'[k].games) = CHUNK_SIZE
             /\ LET all == concatGames([i \in 1..n |->
                                          [chunkId |-> i - 1,
                                           games |-> disk'[i - 1].games]])
                IN /\ \A i \in DOMAIN all, j \in DOMAIN all :
                        i < j => all[i].hash <= all[j].hash
                   /\ \A i \in DOMAIN all, j \in DOMAIN all :
                        (i # j /\ all[i].hash # 0) => all[i].hash # all[j].hash
             /\ {g.hash : g \in Records(disk')} = {g.hash : g \in Records(disk)}]_vars

\* the repair has run on a store of two chunk files that held three games,
\* several of the same hash: one chunk file is left, with fewer games
C38_Witness ==
  /\ lastOp = "rechunk"
  /\ gameToChunkFile.exists
  /\ Cardinality(DOMAIN gameToChunkFile.index) = 3
  /\ \E x \in DOMAIN gameToChunkFile.index : gameToChunkFile.index[x] = 1
  /\ DOMAIN disk = {0}
  /\ Cardinality(Records(disk)) < 3

\* C39: after buildIndexes, master-index.json lists the chunk files in
\* ascending order of chunk id, totalChunks is their number, totalGames
\* the number of their games, and the entry of chunk c has
\* startIdx = c * CHUNK_SIZE and endIdx - startIdx = the games of chunk c
C39_MasterIndexOrdered ==
  (lastOp = "build" /\ DOMAIN disk # {}) =>
    /\ masterFile.exists
    /\ masterFile.totalChunks = Cardinality(DOMAIN disk)
    /\ masterFile.totalGames = Len(AllGames(disk))
    /\ {masterFile.chunks[i].id : i \in DOMAIN masterFile.chunks} = DOMAIN disk
    /\ \A i \in DOMAIN masterFile.chunks, j \in DOMAIN masterFile.chunks :
         i < j => masterFile.chunks[i].id < masterFile.chunks[j].id
    /\ \A i \in DOMAIN masterFile.chunks :
         LET entry == masterFile.chunks[i]
         IN /\ entry.startIdx = entry.id * CHUNK_SIZE
            /\ entry.endIdx - entry.startIdx = Len(disk[entry.id].games)

(***************************************************************************)
(* The upload with a chunk file that does not parse: the last chunk file   *)
(* of data/indexes holds text that is not JSON.  The blob store holds an   *)
(* earlier, good state of the file or none.                                *)
(***************************************************************************)
InitCorrupt ==
  /\ IdleBackup
  /\ IdleRestore
  /\ IdleWrite
  /\ IdleArtifacts
  /\ IdleFetch
  /\ IdleProbe
  /\ IdleIndex
  /\ IdleEnrich
  /\ \E count \in 1..MaxLocalChunks, fromPgnmentor \in BOOLEAN :
       LET good == LocalChunks(count, fromPgnmentor)
           gs == AllGames(good)
           sourceFiles == {gs[i].sourceFile : i \in DOMAIN gs} \ {0}
       IN /\ disk = [good EXCEPT ![count - 1] = Unparsable]
          /\ dedupFile = [exists |-> TRUE, index |-> ScanDedup(gs, EmptyMap)]
          /\ trackingFile =
               [exists |-> TRUE, lastPageVisit |-> 0,
                files |-> [f \in sourceFiles |->
                             TrackingEntry(Cardinality(
                               {i \in DOMAIN gs : gs[i].sourceFile = f}))]]
          /\ \E held \in [Range(listFiles(disk, dedupFile, trackingFile))
                            -> {"absent", "same", "older"}] :
               /\ held[ChunkName(count - 1)] # "same"
               /\ remote = [name \in {n \in DOMAIN held : held[n] # "absent"} |->
                              IF held[name] = "same"
                              THEN readFile(name, disk, dedupFile, trackingFile)
                              ELSE OlderContent(name, good)]
  /\ IdleSync
  /\ now = 1
  /\ IdleRun
  /\ lastWrites = {}
  /\ runs = 0
  /\ rebuilds = 0

\* the upload run on a directory that holds files
UploadOfFiles ==
  \/ UploadNothingToUpload
  \/ UploadPlan
  \/ UploadCancelled
  \/ UploadConfirmed
  \/ UploadFile
  \/ UploadFileFails
  \/ UploadComplete

SpecCorrupt == InitCorrupt /\ [][UploadOfFiles]_vars

\* C33: a run that meets a chunk file that does not parse aborts before it
\* uploads anything: the upload calls store.set for no file, never ends as
\* complete, and the blob store never holds the text that does not parse
C33_UnparsableAborts ==
  /\ setCalls = <<>>
  /\ outcome # "complete"
  /\ \A key \in DOMAIN remote : remote[key] # Unparsable

(***************************************************************************)
(* One save, file by file.  saveGamesToChunks replaces each chunk file     *)
(* with fs.writeFileSync on the file's own path: the file is opened with   *)
(* flag "w", which truncates it, and the text is written into it           *)
(* afterwards.  Between the two the file on disk is neither its previous   *)
(* nor its new content, and an interruption leaves it so.                  *)
(***************************************************************************)
savedChunks == saveGamesToChunks(allNewGames,
                                 IF pc = "save" THEN disk ELSE beforeSave,
                                 lastChunk)

toWrite == savedChunks.written \ lastWrites

SaveNothing ==
  /\ pc = "save"
  /\ savedChunks.written = {}
  /\ pc' = "saved"
  /\ UNCHANGED <<fileVars, now, rebuilds, gameVars, visitDate,
                 limitedFiles, fileIdx, deduplicationIndex, lastChunk,
                 nextGameId, allNewGames, sourceTracking, acceptedThisRun,
                 lastWrites, runs>>
  /\ UNCHANGED syncVars
  /\ UNCHANGED backupVars
  /\ UNCHANGED enrichVars
  /\ UNCHANGED restoreVars
  /\ UNCHANGED writeVars
  /\ UNCHANGED artifactVars
  /\ UNCHANGED fetchVars
  /\ UNCHANGED probeVars
  /\ UNCHANGED indexVars

OpenChunkFile ==
  /\ pc \in {"save", "writing"}
  /\ openFile = NoFile
  /\ toWrite # {}
  /\ LET id == CHOOSE k \in toWrite : \A j \in toWrite : k <= j
     IN /\ disk' = WriteChunk(disk, id, Unparsable)
        /\ openFile' = id
  /\ beforeSave' = IF pc = "save" THEN disk ELSE beforeSave
  /\ pc' = "writing"
  /\ UNCHANGED <<dedupFile, trackingFile, now, rebuilds, gameVars, visitDate,
                 limitedFiles, fileIdx, deduplicationIndex, lastChunk,
                 nextGameId, allNewGames, sourceTracking, acceptedThisRun,
                 lastWrites, runs>>
  /\ UNCHANGED syncVars
  /\ UNCHANGED backupVars
  /\ UNCHANGED enrichVars
  /\ UNCHANGED restoreVars
  /\ UNCHANGED artifactVars
  /\ UNCHANGED fetchVars
  /\ UNCHANGED probeVars
  /\ UNCHANGED indexVars

WriteChunkFile ==
  /\ pc = "writing"
  /\ openFile # NoFile
  /\ disk' = WriteChunk(disk, openFile, savedChunks.dsk[openFile])
  /\ lastWrites' = lastWrites \cup {openFile}
  /\ openFile' = NoFile
  /\ pc' = IF toWrite = {openFile} THEN "saved" ELSE "writing"
  /\ UNCHANGED <<dedupFile, trackingFile, now, rebuilds, gameVars, visitDate,
                 limitedFiles, fileIdx, deduplicationIndex, lastChunk,
                 nextGameId, allNewGames, sourceTracking, acceptedThisRun,
                 beforeSave, runs>>
  /\ UNCHANGED syncVars
  /\ UNCHANGED backupVars
  /\ UNCHANGED enrichVars
  /\ UNCHANGED restoreVars
  /\ UNCHANGED artifactVars
  /\ UNCHANGED fetchVars
  /\ UNCHANGED probeVars
  /\ UNCHANGED indexVars

Interrupted ==
  /\ pc = "writing"
  /\ pc' = "killed"
  /\ UNCHANGED <<fileVars, now, rebuilds, gameVars, visitDate,
                 limitedFiles, fileIdx, deduplicationIndex, lastChunk,
                 nextGameId, allNewGames, sourceTracking, acceptedThisRun,
                 lastWrites, runs>>
  /\ UNCHANGED syncVars
  /\ UNCHANGED backupVars
  /\ UNCHANGED enrichVars
  /\ UNCHANGED restoreVars
  /\ UNCHANGED writeVars
  /\ UNCHANGED artifactVars
  /\ UNCHANGED fetchVars
  /\ UNCHANGED probeVars
  /\ UNCHANGED indexVars

WriteFiles == SaveNothing \/ OpenChunkFile \/ WriteChunkFile \/ Interrupted

SpecWrite == InitSave /\ [][WriteFiles]_vars

\* C34: while a save runs, and after it was interrupted at any point, every
\* chunk file on disk is entirely its content from before the save or
\* entirely the content the save gives it, and no file of before is missing.
C34_FilesReplacedWhole ==
  pc \in {"writing", "killed", "saved"} =>
    /\ DOMAIN beforeSave \subseteq DOMAIN disk
    /\ \A id \in DOMAIN disk :
         \/ id \in DOMAIN beforeSave /\ disk[id] = beforeSave[id]
         \/ id \in DOMAIN savedChunks.dsk /\ disk[id] = savedChunks.dsk[id]

(***************************************************************************)
(* POST /api/restore of the workflow server.  The *.json files of          *)
(* backups/<backupId>/indexes are copied over data/indexes and the *.json  *)
(* files of data/indexes that the backup does not hold are unlinked.  A    *)
(* directory is a function from file names to contents; the backups here  *)
(* hold chunk files, the two tracking files and the two built indexes.     *)
(***************************************************************************)
MaxRestoreChunks == 2   \* chunk files in data/indexes and in a backup
MaxRestores == 2        \* restore requests per behaviour

BackupIds == {1, 2}     \* the backupId values requested; only backup 1 exists

MasterName == [kind |-> "master", id |-> 0]
GameToChunkName == [kind |-> "gameToChunk", id |-> 0]

MasterContent(master) ==
  [totalGames |-> master.totalGames, totalChunks |-> master.totalChunks,
   chunks |-> master.chunks]

\* readdirSync(localIndexesDir) filtered to *.json, with each file's content
indexFiles(dsk, dedup, tracking, master, gameToChunk) ==
  LET names == {ChunkName(k) : k \in DOMAIN dsk}
                 \cup (IF dedup.exists THEN {DedupName} ELSE {})
                 \cup (IF tracking.exists THEN {TrackingName} ELSE {})
                 \cup (IF master.exists THEN {MasterName} ELSE {})
                 \cup (IF gameToChunk.exists THEN {GameToChunkName} ELSE {})
  IN [name \in names |->
        CASE name.kind = "master" -> MasterContent(master)
          [] name.kind = "gameToChunk" -> gameToChunk.index
          [] OTHER -> readFile(name, dsk, dedup, tracking)]

localIndexes ==
  indexFiles(disk, dedupFile, trackingFile, masterFile, gameToChunkFile)

\* the copy loop: fs.copyFileSync(src, dst) for each file of the backup
copyFiles(local, files) ==
  [name \in DOMAIN local \cup DOMAIN files |->
     IF name \in DOMAIN files THEN files[name] ELSE local[name]]

\* a variant that leaves the local files the backup does not hold
keepStale(local, backupSet) == local

\* the removal loop: unlinkSync of each local file not in backupSet
removeStale(local, backupSet) ==
  [name \in DOMAIN local \cap backupSet |-> local[name]]

restore(local, files) == removeStale(copyFiles(local, files), DOMAIN files)

chunksOf(dir) ==
  [k \in {name.id : name \in {n \in DOMAIN dir : n.kind = "chunk"}} |->
     dir[ChunkName(k)]]

RestoreBackup ==
  /\ restores < MaxRestores
  /\ \E backupId \in DOMAIN backups :
       LET local == restore(localIndexes, backups[backupId])
       IN /\ disk' = chunksOf(local)
          /\ dedupFile' = IF DedupName \in DOMAIN local
                          THEN [exists |-> TRUE, index |-> local[DedupName]]
                          ELSE NoDedup
          /\ trackingFile' =
               IF TrackingName \in DOMAIN local
               THEN [exists |-> TRUE,
                     lastPageVisit |-> local[TrackingName].lastPageVisit,
                     files |-> local[TrackingName].files]
               ELSE NoTracking
          /\ masterFile' =
               IF MasterName \in DOMAIN local
               THEN [exists |-> TRUE,
                     totalGames |-> local[MasterName].totalGames,
                     totalChunks |-> local[MasterName].totalChunks,
                     chunks |-> local[MasterName].chunks]
               ELSE NoMaster
          /\ gameToChunkFile' =
               IF GameToChunkName \in DOMAIN local
               THEN [exists |-> TRUE, index |-> local[GameToChunkName]]
               ELSE NoGameToChunk
          /\ rsBackupId' = backupId
  /\ rsOutcome' = "done"
  /\ restores' = restores + 1
  /\ UNCHANGED <<now, runVars, gameVars, rebuilds, lastOp>>
  /\ UNCHANGED syncVars
  /\ UNCHANGED backupVars
  /\ UNCHANGED enrichVars
  /\ UNCHANGED writeVars
  /\ UNCHANGED fetchVars
  /\ UNCHANGED probeVars
  /\ UNCHANGED indexVars

\* !fs.existsSync(backupIndexesDir): "Backup not found"
RestoreNotFound ==
  /\ restores < MaxRestores
  /\ \E backupId \in BackupIds \ DOMAIN backups :
       rsBackupId' = backupId
  /\ rsOutcome' = "error"
  /\ restores' = restores + 1
  /\ UNCHANGED <<fileVars, now, runVars, gameVars, rebuilds>>
  /\ UNCHANGED syncVars
  /\ UNCHANGED backupVars
  /\ UNCHANGED enrichVars
  /\ UNCHANGED writeVars
  /\ UNCHANGED artifactVars
  /\ UNCHANGED fetchVars
  /\ UNCHANGED probeVars
  /\ UNCHANGED indexVars

\* !backupId: status 400
RestoreNoId ==
  /\ restores < MaxRestores
  /\ rsBackupId' = NoBackupId
  /\ rsOutcome' = "bad request"
  /\ restores' = restores + 1
  /\ UNCHANGED <<fileVars, now, runVars, gameVars, rebuilds>>
  /\ UNCHANGED syncVars
  /\ UNCHANGED backupVars
  /\ UNCHANGED enrichVars
  /\ UNCHANGED writeVars
  /\ UNCHANGED artifactVars
  /\ UNCHANGED fetchVars
  /\ UNCHANGED probeVars
  /\ UNCHANGED indexVars

Restore == RestoreBackup \/ RestoreNotFound \/ RestoreNoId

RestoreNames ==
  {ChunkName(k) : k \in 0..(MaxRestoreChunks - 1)}
    \cup {DedupName, TrackingName, MasterName, GameToChunkName}

\* a directory of rebuilt indexes with `count` chunk files
BuiltIndexes(count, fromPgnmentor) ==
  LET dsk == LocalChunks(count, fromPgnmentor)
      loadedChunks == loadChunks(dsk, <<>>)
  IN indexFiles(dsk,
                [exists |-> TRUE, index |-> ScanDedup(AllGames(dsk), EmptyMap)],
                [exists |-> TRUE, lastPageVisit |-> 0, files |-> EmptyMap],
                buildMasterIndex(loadedChunks),
                [exists |-> TRUE,
                 index |-> buildGameToChunkIndex(loadedChunks)])

InitRestore ==
  /\ IdleSync
  /\ bkPc = "idle"
  /\ bkBlobs = <<>>
  /\ bkAttempted = 0
  /\ bkDownloads = <<>>
  /\ bkOutcome = "none"
  /\ backupRuns = 0
  /\ backedUp = FALSE
  /\ IdleRestore
  /\ IdleWrite
  /\ IdleFetch
  /\ IdleProbe
  /\ IdleIndex
  /\ IdleEnrich
  /\ remote = EmptyMap
  /\ \E held \in SUBSET RestoreNames, kept \in SUBSET RestoreNames :
       LET whole == BuiltIndexes(MaxRestoreChunks, TRUE)
           local == BuiltIndexes(MaxRestoreChunks, FALSE)
           here == [name \in kept |-> local[name]]
       IN /\ backups = (1 :> [name \in held |-> whole[name]])
          /\ disk = chunksOf(here)
          /\ dedupFile = IF DedupName \in kept
                         THEN [exists |-> TRUE, index |-> here[DedupName]]
                         ELSE NoDedup
          /\ trackingFile = IF TrackingName \in kept
                            THEN [exists |-> TRUE,
                                  lastPageVisit |-> here[TrackingName].lastPageVisit,
                                  files |-> here[TrackingName].files]
                            ELSE NoTracking
          /\ masterFile = IF MasterName \in kept
                          THEN [exists |-> TRUE,
                                totalGames |-> here[MasterName].totalGames,
                                totalChunks |-> here[MasterName].totalChunks,
                                chunks |-> here[MasterName].chunks]
                          ELSE NoMaster
          /\ gameToChunkFile = IF GameToChunkName \in kept
                               THEN [exists |-> TRUE,
                                     index |-> here[GameToChunkName]]
                               ELSE NoGameToChunk
  /\ lastOp = "none"
  /\ now = 2
  /\ IdleRun
  /\ lastWrites = {}
  /\ runs = 0
  /\ rebuilds = 0

SpecRestore == InitRestore /\ [][Restore]_vars

\* C40: a restore that succeeds leaves in data/indexes exactly the *.json
\* files of the backup, each with the backup's content; any restore request
\* leaves every backup as it was, and one that names no existing backup
\* leaves data/indexes as it was.
C40_RestoreMirrorsBackup ==
  [][restores' # restores =>
       /\ backups' = backups
       /\ IF rsOutcome' = "done"
          THEN /\ rsBackupId' \in DOMAIN backups
               /\ localIndexes' = backups[rsBackupId']
          ELSE /\ rsBackupId' \notin DOMAIN backups
               /\ localIndexes' = localIndexes]_vars

C40_Witness ==
  /\ rsOutcome = "done"
  /\ rsBackupId \in DOMAIN backups
  /\ MasterName \notin DOMAIN backups[rsBackupId]
  /\ ChunkName(0) \in DOMAIN backups[rsBackupId]
  /\ ChunkName(1) \notin DOMAIN backups[rsBackupId]
  /\ disk = (0 :> backups[rsBackupId][ChunkName(0)])
  /\ masterFile = NoMaster

====
